---------------------------- MODULE Spec2Model ----------------------------
(***************************************************************************)
(* The coin-accrual / site-blocking engine of the browser extension        *)
(* (src/background.js, class FocusCoinEngine) as a state machine.          *)
(*                                                                         *)
(* The engine is single threaded but every handler is an async function:   *)
(* it runs synchronously up to an await, is suspended there, and is        *)
(* resumed later.  One action of the model is one such synchronous         *)
(* segment; other handlers may run between two segments of one handler.    *)
(* chrome.storage.local serves its requests in the order they are issued,  *)
(* so a get reads, and a set writes, at the moment it is called.           *)
(***************************************************************************)
EXTENDS Integers, Sequences, FiniteSets, TLC

(***************************************************************************)
(* Bounds of the model.                                                    *)
(***************************************************************************)
TimeStep == 4000        \* the clock advances in steps of this many ms
MaxAdvances == 3        \* number of clock advances explored
MaxEval == 1            \* updateCoins() invocations suspended at once
MaxInFlight == 1        \* heartbeat requests in flight at once
MaxCalls == 1           \* startSession/stopSession calls suspended at once
MaxSessions == 1        \* startSession calls explored
MaxBufferTicks == 11    \* ticks explored when the heartbeat buffer is filled
MaxParts == 3           \* parts a host name is put together from
MaxOverlapTicks == 2    \* tick intervals two overlapping invocations are followed for
MaxNeutralTicks == 2    \* tick intervals spent on neutral sites
MaxDeliverTicks == 3    \* ticks explored when delivery is followed to its end
MaxPosts == 1           \* POST /api/sessions/heartbeats requests handled at once
MaxReceived == 3        \* requests the backend receives
MaxCallTicks == 1       \* tick intervals overlapping session calls are followed for
MaxDrainSteps == 8      \* clock advances before the epoch of the clock is moved
CacheStep == 120000     \* the backend's clock advances in steps of this many ms
MaxCacheSteps == 4      \* clock advances explored for the leaderboard cache
MaxGets == 1            \* GET /api/leaderboard/global requests handled at once
MaxListed == 1          \* users the leaderboard lists
MaxAggregateHours == 2  \* hours the aggregation runs are followed hour by hour
IdleHours == 22         \* hours the backend's clock then advances by at once
MaxRuns == 1            \* aggregation runs in progress at once
MaxBuys == 2            \* POST /api/user/powerups requests handled at once
EarnedTicks == 20       \* ticks credited by the heartbeat a user earns coins with

(***************************************************************************)
(* Program constants (constructor of FocusCoinEngine).                     *)
(***************************************************************************)
coinUpdateInterval == 5000
CACHE_DURATION == 300000
HourMs == 3600000
StreakSaverCost == 50
DoubleXPCost == 100
DayMs == 86400000
maxBufferSize == 10
InitialCoins == 10
ProductiveRate == 3
DistractingRate == 4

productiveSites ==
  << <<"g","i","t","h","u","b",".","c","o","m">>,
     <<"s","t","a","c","k","o","v","e","r","f","l","o","w",".","c","o","m">>,
     <<"w","i","k","i","p","e","d","i","a",".","o","r","g">>,
     <<"l","e","e","t","c","o","d","e",".","c","o","m">>,
     <<"c","o","u","r","s","e","r","a",".","o","r","g">>,
     <<"u","d","e","m","y",".","c","o","m">>,
     <<"e","d","x",".","o","r","g">>,
     <<"k","h","a","n","a","c","a","d","e","m","y",".","o","r","g">>,
     <<"d","e","v","e","l","o","p","e","r",".","m","o","z","i","l","l","a",".","o","r","g">>,
     <<"w","3","s","c","h","o","o","l","s",".","c","o","m">>,
     <<"f","r","e","e","c","o","d","e","c","a","m","p",".","o","r","g">> >>

distractingSites ==
  << <<"y","o","u","t","u","b","e",".","c","o","m">>,
     <<"i","n","s","t","a","g","r","a","m",".","c","o","m">>,
     <<"t","w","i","t","t","e","r",".","c","o","m">>,
     <<"f","a","c","e","b","o","o","k",".","c","o","m">>,
     <<"r","e","d","d","i","t",".","c","o","m">>,
     <<"t","i","k","t","o","k",".","c","o","m">>,
     <<"n","e","t","f","l","i","x",".","c","o","m">>,
     <<"t","w","i","t","c","h",".","t","v">>,
     <<"d","i","s","c","o","r","d",".","c","o","m">>,
     <<"w","h","a","t","s","a","p","p",".","c","o","m">> >>

(***************************************************************************)
(* Strings are sequences of characters.  A tab's URL is modelled by its    *)
(* host name; the empty sequence is a tab without URL (or no tab).         *)
(***************************************************************************)
UrlGithub == <<"w","w","w",".","g","i","t","h","u","b",".","c","o","m">>
UrlYoutube == <<"y","o","u","t","u","b","e",".","c","o","m">>
UrlExample == <<"e","x","a","m","p","l","e",".","c","o","m">>
\* another URL of the distracting site of UrlYoutube
UrlYoutubeMobile == <<"m",".","y","o","u","t","u","b","e",".","c","o","m">>
NoUrl == <<>>
\* host of chrome.runtime.getURL('blocked.html'): the extension id
BlockedHost == <<"e","i","d">>
WwwDot == <<"w","w","w",".">>

UserUrls == {UrlGithub, UrlYoutube, UrlExample, NoUrl}

\* String.prototype.includes
Includes(s, t) ==
  \E i \in 0..(Len(s) - Len(t)) : SubSeq(s, i + 1, i + Len(t)) = t

\* String.prototype.replace(t, r) with a string pattern: first occurrence only
ReplaceFirst(s, t, r) ==
  IF ~Includes(s, t) THEN s
  ELSE LET i == CHOOSE j \in 0..(Len(s) - Len(t)) :
                   /\ SubSeq(s, j + 1, j + Len(t)) = t
                   /\ \A k \in 0..(j - 1) : SubSeq(s, k + 1, k + Len(t)) # t
       IN  SubSeq(s, 1, i) \o r \o SubSeq(s, i + Len(t) + 1, Len(s))

\* url.hostname.replace('www.', '')
Domain(url) == ReplaceFirst(url, WwwDot, <<>>)

\* getSiteType without the neutral answer
getSiteType_noNeutral(domain) ==
  IF \E i \in 1..Len(productiveSites) : Includes(domain, productiveSites[i])
    THEN "productive"
  ELSE "distracting"

\* getSiteType testing the distracting list first
getSiteType_distractingFirst(domain) ==
  IF \E i \in 1..Len(distractingSites) : Includes(domain, distractingSites[i])
    THEN "distracting"
  ELSE IF \E i \in 1..Len(productiveSites) : Includes(domain, productiveSites[i])
    THEN "productive"
  ELSE "neutral"

getSiteType(domain) ==
  IF \E i \in 1..Len(productiveSites) : Includes(domain, productiveSites[i])
    THEN "productive"
  ELSE IF \E i \in 1..Len(distractingSites) : Includes(domain, distractingSites[i])
    THEN "distracting"
  ELSE "neutral"

Max(a, b) == IF a >= b THEN a ELSE b

(***************************************************************************)
(* State.                                                                  *)
(***************************************************************************)
VARIABLES
  now,              \* Date.now()
  tabUrl,           \* URL (host) of the active tab of the current window
  currentTabId,     \* this.currentTabId: "null", or "active" (the id of the
                    \* active tab; onActivated keeps it so once it is set)
  isSessionActive,  \* this.isSessionActive
  sessionId,        \* this.sessionId (0 = null)
  lastUpdateTime,   \* this.lastUpdateTime
  updateTimer,      \* this.updateTimer (0 = null)
  timers,           \* interval timers registered by setInterval for updateCoins
  heartbeatBuffer,  \* this.heartbeatBuffer
  focusCoins,       \* chrome.storage.local focusCoins
  todayCoins,       \* chrome.storage.local todayCoins
  sessionActive,    \* chrome.storage.local sessionActive
  sessionStartTime, \* chrome.storage.local sessionStartTime (-1 = null/unset)
  evals,            \* suspended updateCoins() invocations
  requests,         \* POST /sessions/heartbeats requests in flight
  calls,            \* suspended startSession()/stopSession() calls
  sessionsStarted,  \* number of session ids generated so far
  last,             \* history: the operation ("event": a tick or tab change
                    \* handled with the engine idle, "evaluate": updateCoins(),
                    \* "flush": syncHeartbeats(), "start": startSession(),
                    \* "stop": stopSession(), "classify": getSiteType) the
                    \* last step completed, and how it ended; op "" if the
                    \* step completed none
  prevEvalTime,     \* history: when updateCoins() was last called in an
                    \* active session, kept for less than one tick interval
                    \* (-1 = none)
  server            \* the backend: its database and the requests it is
                    \* handling (routes/sessions.js)

vars == << now, tabUrl, currentTabId, isSessionActive, sessionId,
           lastUpdateTime, updateTimer, timers, heartbeatBuffer, focusCoins,
           todayCoins, sessionActive, sessionStartTime, evals, requests,
           calls, sessionsStarted, last, prevEvalTime, server >>

tabVars == << tabUrl, currentTabId >>
storeVars == << focusCoins, todayCoins, sessionActive, sessionStartTime >>
sessVars == << isSessionActive, sessionId, updateTimer, timers, sessionsStarted >>

MaxNow == MaxAdvances * TimeStep
\* the suspended invocations, calls and requests are kept in slots; the number
\* of slots is fixed by the initial state
EvalSlots == DOMAIN evals
CallSlots == DOMAIN calls
RequestSlots == DOMAIN requests

\* an updateCoins() invocation: where it is suspended, and its locals (tab:
\* whether the tab it read is still the active one); prev is history: when
\* the invocation before this one began, kept like prevEvalTime
IdleEval == [pc |-> "idle", tab |-> "none", url |-> NoUrl, coins |-> 0,
             today |-> 0, now |-> 0, change |-> 0, prev |-> -1]
\* a startSession()/stopSession() call: where it is suspended; flush is
\* history: how the syncHeartbeats() of a stopSession() went ("none": the
\* buffer was empty)
IdleCall == [op |-> "none", pc |-> "idle", flush |-> "none"]
\* a request slot: the batch sent and the stopSession call awaiting the
\* response (0 = none)
NoRequest == [sent |-> FALSE, batch |-> << >>, owner |-> 0]

\* the history variables after a step that completed operation op with
\* result arg
Record(op, arg) ==
  /\ last' = [op |-> op, arg |-> arg]
  /\ UNCHANGED prevEvalTime

NoRecord == Record("", "")

\* the history variables after a step that handled a tick or a tab change
\* with this.isSessionActive = active: updateCoins() was called, or the
\* handler returned at once (lines 169, 175)
Invoked(active) ==
  /\ last' = IF active THEN [op |-> "", arg |-> ""]
              ELSE [op |-> "event", arg |-> "idle"]
  /\ prevEvalTime' = IF active THEN now ELSE prevEvalTime

\* a time of the history as it is kept at time t: forgotten once it lies a
\* tick interval back
Kept(p, t) == IF p >= 0 /\ t - p < coinUpdateInterval THEN p ELSE -1

(***************************************************************************)
(* updateCoins(): entry up to the await of chrome.tabs.query.              *)
(***************************************************************************)
HasFreeEval(ev) == \E e \in DOMAIN ev : ev[e].pc = "idle"
FreeEval(ev) ==
  CHOOSE e \in DOMAIN ev :
    /\ ev[e].pc = "idle"
    /\ \A f \in DOMAIN ev : ev[f].pc = "idle" => e <= f

\* updateCoins without the test of this.isSessionActive
updateCoins_always(ev, active) ==
  IF ~HasFreeEval(ev) THEN ev
  ELSE [ev EXCEPT ![FreeEval(ev)] = [IdleEval EXCEPT !.pc = "query",
                                                 !.prev = prevEvalTime]]

\* the suspended invocations after a call of updateCoins() with
\* this.isSessionActive = active
updateCoins(ev, active) ==
  IF ~active THEN ev
  ELSE [ev EXCEPT ![FreeEval(ev)] = [IdleEval EXCEPT !.pc = "query",
                                                      !.prev = prevEvalTime]]

CanCallUpdateCoins(ev, active) == ~active \/ HasFreeEval(ev)

(***************************************************************************)
(* syncHeartbeats(): entry up to the await of apiCall.  The request body   *)
(* is serialised when fetch is called, so the batch is the buffer as it is *)
(* at the call.  owner is the stopSession call awaiting it (0 = none).     *)
(***************************************************************************)
HasFreeRequest(reqs) == \E i \in DOMAIN reqs : ~reqs[i].sent
FreeRequest(reqs) ==
  CHOOSE i \in DOMAIN reqs :
    /\ ~reqs[i].sent
    /\ \A j \in DOMAIN reqs : ~reqs[j].sent => i <= j

\* syncHeartbeats sending the newest record only
syncHeartbeats_newest(buf, reqs, owner) ==
  IF Len(buf) = 0 THEN reqs
  ELSE [reqs EXCEPT ![FreeRequest(reqs)] =
          [sent |-> TRUE, batch |-> << buf[Len(buf)] >>, owner |-> owner]]

syncHeartbeats(buf, reqs, owner) ==
  IF Len(buf) = 0 THEN reqs
  ELSE [reqs EXCEPT ![FreeRequest(reqs)] =
          [sent |-> TRUE, batch |-> buf, owner |-> owner]]

CanSyncHeartbeats(buf, reqs) == Len(buf) = 0 \/ HasFreeRequest(reqs)

\* addHeartbeat(data): the buffer after the push
addHeartbeat(buf, data, sid) ==
  Append(buf, [timestamp |-> data.timestamp, site |-> data.site,
               siteType |-> data.siteType, action |-> data.action,
               coinsChange |-> data.coinsChange, url |-> data.url,
               sessionId |-> sid])

\* BufferFull with a strict comparison
BufferFull_strict(buf) == Len(buf) > maxBufferSize

\* the auto-sync test of addHeartbeat
BufferFull(buf) == Len(buf) >= maxBufferSize

(***************************************************************************)
(* The backend (routes/sessions.js, models/index.js) with one user: the    *)
(* Heartbeat collection, the user's stats.totalCoins, and the requests to  *)
(* POST /api/sessions/heartbeats being handled, each suspended at an await *)
(* (user: stats.totalCoins of the document getOrCreateUser loaded).        *)
(***************************************************************************)
IdlePost == [pc |-> "idle", batch |-> << >>, user |-> 0]

\* routes/leaderboard.js: the values of req.query.sortBy explored
SortKeys == {"totalCoins", "currentStreak"}
\* leaderboardCache.data[sortBy] (set: whether it exists); at is history:
\* when it was generated
NoBoard == [set |-> FALSE, totalUsers |-> 0, at |-> -1]
\* leaderboardCache as the module is loaded (lastUpdated -1 = null, data
\* without an entry = null or {})
EmptyCache == [lastUpdated |-> -1, data |-> [s \in SortKeys |-> NoBoard]]
\* a request to GET /api/leaderboard/global suspended at await User.find,
\* with its locals
IdleGet == [pc |-> "idle", sortBy |-> "", now |-> 0]
\* history: the last response of GET /api/leaderboard/global (at: when the
\* request arrived; generated: when the leaderboard served was generated)
NoAnswer == [sortBy |-> "", cached |-> FALSE, at |-> -1, generated |-> -1]

\* services/aggregation.js: the dates (days since the epoch, for the
\* YYYY-MM-DD key) of the DailyStats collection
Dates == 0..((MaxAggregateHours + IdleHours) * HourMs) \div DayMs
\* the stats of a DailyStats document (set: whether the document exists)
NoStats == [set |-> FALSE, totalFocusTime |-> 0, coinsEarned |-> 0,
            coinsSpent |-> 0, productiveTime |-> 0, distractingTime |-> 0,
            sessionsCount |-> 0]
\* an aggregation run suspended at an await, with its locals: the period,
\* isDailyFinal, the heartbeats found, the dates still to save and the
\* totalCoins computed by updateUserStats; stored is history: the number of
\* heartbeats in the collection when Heartbeat.find resolved
IdleRun == [pc |-> "idle", startTime |-> 0, endTime |-> 0,
            isDailyFinal |-> FALSE, heartbeats |-> << >>, dates |-> << >>,
            totalCoins |-> 0, stored |-> 0]

\* a request to POST /api/user/powerups/:uuid suspended at an await (user:
\* stats.totalCoins of the document getUser loaded)
IdleBuy == [pc |-> "idle", powerupType |-> "", user |-> 0]

\* listed: the users that are not private and have a googleId;
\* lastActive: lastActive of the user (-1: the user does not exist yet)
InitServer ==
  [heartbeats |-> << >>, totalCoins |-> 0, received |-> 0,
   posts |-> [p \in 1..MaxPosts |-> IdlePost],
   listed |-> 0, cache |-> EmptyCache,
   gets |-> [q \in 1..MaxGets |-> IdleGet], answer |-> NoAnswer,
   lastActive |-> -1, daily |-> [d \in Dates |-> NoStats],
   runs |-> [a \in 1..MaxRuns |-> IdleRun],
   buys |-> [b \in 1..MaxBuys |-> IdleBuy]]

PostSlots == DOMAIN server.posts
GetSlots == DOMAIN server.gets
RunSlots == DOMAIN server.runs
BuySlots == DOMAIN server.buys

\* heartbeatSchema: the required sessionId and the two enums
ValidHeartbeat(hb) ==
  /\ hb.sessionId # 0
  /\ hb.siteType \in {"productive", "distracting", "neutral"}
  /\ hb.action \in {"visit", "focus", "distract"}

\* the documents built from the heartbeats of a request
processedHeartbeats(batch) ==
  [k \in 1..Len(batch) |->
     [userId |-> 1, sessionId |-> batch[k].sessionId,
      timestamp |-> batch[k].timestamp, site |-> batch[k].site,
      siteType |-> batch[k].siteType, action |-> batch[k].action,
      coinsChange |-> batch[k].coinsChange, url |-> batch[k].url]]

\* heartbeats.reduce((sum, hb) => sum + (hb.coinsChange || 0), 0)
RECURSIVE totalCoinsChange(_)
totalCoinsChange(batch) ==
  IF Len(batch) = 0 THEN 0
  ELSE batch[1].coinsChange + totalCoinsChange(Tail(batch))

(***************************************************************************)
(* Initial state: the engine after initialize() has run.  Storage is       *)
(* either fresh (defaults are written) or left by an earlier run, in which *)
(* case a persisted active session is resumed by startMonitoring().        *)
(***************************************************************************)
StoredCoins == {0, 2, InitialCoins}

InitEngine(nEval, nRequests, nCalls) ==
  /\ now = 0
  /\ tabUrl \in UserUrls
  /\ currentTabId = "null"
  /\ sessionId = 0
  /\ lastUpdateTime = 0
  /\ heartbeatBuffer = << >>
  /\ focusCoins \in StoredCoins
  /\ todayCoins = 0
  /\ sessionActive \in BOOLEAN
  /\ sessionStartTime = IF sessionActive THEN 0 ELSE -1
  /\ isSessionActive = sessionActive
  /\ updateTimer = IF sessionActive THEN 1 ELSE 0
  /\ timers = IF sessionActive THEN {1} ELSE {}
  /\ prevEvalTime = IF sessionActive THEN 0 ELSE -1
  /\ evals = [e \in 1..nEval |->
               [updateCoins([f \in 1..nEval |-> IdleEval], sessionActive)[e]
                  EXCEPT !.prev = -1]]
  /\ requests = [i \in 1..nRequests |-> NoRequest]
  /\ calls = [c \in 1..nCalls |-> IdleCall]
  /\ sessionsStarted = 0
  /\ last = [op |-> "", arg |-> ""]
  /\ server = InitServer

Init == InitEngine(MaxEval, MaxInFlight, MaxCalls)

(***************************************************************************)
(* Environment: the clock, the tick timer, the tabs.                       *)
(***************************************************************************)
AdvanceClock(step, max) ==
  /\ now + step <= max
  /\ now' = now + step
  /\ last' = [op |-> "", arg |-> ""]
  /\ prevEvalTime' = Kept(prevEvalTime, now')
  /\ evals' = [e \in EvalSlots |->
                 [evals[e] EXCEPT !.prev = Kept(evals[e].prev, now')]]
  /\ UNCHANGED << tabVars, sessVars, lastUpdateTime, heartbeatBuffer,
                  storeVars, requests, calls >>
  /\ UNCHANGED server

\* the interval timer set by startMonitoring fires
TimerTick ==
  /\ Invoked(isSessionActive)
  /\ updateTimer \in timers
  /\ CanCallUpdateCoins(evals, isSessionActive)
  /\ evals' = updateCoins(evals, isSessionActive)
  /\ UNCHANGED << now, tabVars, sessVars, lastUpdateTime, heartbeatBuffer,
                  storeVars, requests, calls >>
  /\ UNCHANGED server

\* tabChangeTime leaving this.lastUpdateTime as it is
tabChangeTime_keeps(active, t, lut) == lut

\* this.lastUpdateTime after handleTabChange() ran at time t with
\* this.isSessionActive = active and this.lastUpdateTime = lut
tabChangeTime(active, t, lut) == IF active THEN t ELSE lut

\* handleTabChange()
handleTabChange ==
  /\ CanCallUpdateCoins(evals, isSessionActive)
  /\ lastUpdateTime' = tabChangeTime(isSessionActive, now, lastUpdateTime)
  /\ evals' = updateCoins(evals, isSessionActive)

\* the invocations after another tab became the active one
leaveTab(ev) ==
  [e \in EvalSlots |->
     IF ev[e].tab = "active" THEN [ev[e] EXCEPT !.tab = "background"] ELSE ev[e]]

\* chrome.tabs.onActivated: the user switches to another tab, showing u
TabActivated(u) ==
  /\ Invoked(isSessionActive)
  /\ tabUrl' = u
  /\ currentTabId' = "active"
  /\ CanCallUpdateCoins(evals, isSessionActive)
  /\ lastUpdateTime' = tabChangeTime(isSessionActive, now, lastUpdateTime)
  /\ evals' = updateCoins(leaveTab(evals), isSessionActive)
  /\ UNCHANGED << now, sessVars, heartbeatBuffer, storeVars, requests, calls >>
  /\ UNCHANGED server

\* chrome.tabs.onUpdated with changeInfo.url: the active tab navigates to u
TabUpdated(u) ==
  /\ u # tabUrl
  /\ u # NoUrl
  /\ tabUrl' = u
  /\ IF currentTabId = "active"
       THEN Invoked(isSessionActive) /\ handleTabChange
       ELSE NoRecord /\ UNCHANGED << lastUpdateTime, evals >>
  /\ UNCHANGED << now, currentTabId, sessVars, heartbeatBuffer,
                  storeVars, requests, calls >>
  /\ UNCHANGED server

(***************************************************************************)
(* updateCoins(): the segments after each await.                           *)
(***************************************************************************)
\* chrome.tabs.query resolves: classify the tab, call chrome.storage.local.get
TabsQueryReturns(e) ==
  /\ IF tabUrl = NoUrl THEN Record("evaluate", "noTab")
     ELSE IF getSiteType(Domain(tabUrl)) = "neutral" THEN Record("evaluate", "neutral")
     ELSE NoRecord
  /\ evals[e].pc = "query"
  /\ evals' =
       IF tabUrl = NoUrl \/ getSiteType(Domain(tabUrl)) = "neutral"
         THEN [evals EXCEPT ![e] = IdleEval]
         ELSE [evals EXCEPT ![e] = [IdleEval EXCEPT !.pc = "get",
                                                     !.tab = "active",
                                                     !.url = tabUrl,
                                                     !.coins = focusCoins,
                                                     !.today = todayCoins,
                                                     !.prev = evals[e].prev]]
  /\ UNCHANGED << now, tabVars, sessVars, lastUpdateTime, heartbeatBuffer,
                  storeVars, requests, calls >>
  /\ UNCHANGED server

\* intervalsElapsed rounding up instead of down
intervalsElapsed_ceil(t) ==
  (t - lastUpdateTime + coinUpdateInterval - 1) \div coinUpdateInterval

\* Math.floor(timeDiff / this.coinUpdateInterval)
intervalsElapsed(t) == (t - lastUpdateTime) \div coinUpdateInterval

\* newCoins without Math.max(0, ...)
newCoins_noClamp(siteType, currentCoins, n) ==
  IF siteType = "productive"
    THEN currentCoins + n * ProductiveRate
    ELSE currentCoins + n * (0 - DistractingRate)

\* the balance written for a site type, a balance read and a number of ticks
newCoins(siteType, currentCoins, n) ==
  IF siteType = "productive"
    THEN currentCoins + n * ProductiveRate
    ELSE Max(0, currentCoins + n * (0 - DistractingRate))

\* coinChange with the distracting rate applied to productive sites too
coinChange_oneRate(siteType, n) ==
  IF siteType = "productive" THEN n * DistractingRate
  ELSE n * (0 - DistractingRate)

coinChange(siteType, n) ==
  IF siteType = "productive" THEN n * ProductiveRate
  ELSE n * (0 - DistractingRate)

\* newToday never adding anything
newToday_noAdd(siteType, today, n) == today

\* newToday with the change of a distracting site counted as well
newToday_anySite(siteType, today, n) == today + coinChange(siteType, n)

\* todayCoins written for a site type, a value read and a number of ticks
newToday(siteType, today, n) ==
  IF siteType = "productive" THEN today + coinChange(siteType, n) ELSE today

\* mustBlock whatever the balance read
mustBlock_anyBalance(siteType, currentCoins) == siteType = "distracting"

\* the branch of a distracting site that calls blockSite instead of applying
\* the change
mustBlock(siteType, currentCoins) ==
  siteType = "distracting" /\ ~(currentCoins > 0)

\* chrome.storage.local.get resolves: compute the delta and either return,
\* call chrome.storage.local.set, or call blockSite
StorageGetReturns(e) ==
  /\ evals[e].pc = "get"
  /\ LET siteType == getSiteType(Domain(evals[e].url))
         n == intervalsElapsed(now)
         currentCoins == evals[e].coins
     IN
       IF n > 0
         THEN IF mustBlock(siteType, currentCoins)
                THEN /\ evals' = [evals EXCEPT ![e].pc = "block"]
                     /\ NoRecord
                     /\ UNCHANGED << focusCoins, todayCoins >>
                ELSE /\ NoRecord
                     /\ focusCoins' = newCoins(siteType, currentCoins, n)
                     /\ todayCoins' = newToday(siteType, evals[e].today, n)
                     /\ evals' = [evals EXCEPT ![e].pc = "set",
                                               ![e].now = now,
                                               ![e].change = coinChange(siteType, n)]
         ELSE /\ evals' = [evals EXCEPT ![e] = IdleEval]
              /\ Record("evaluate", "skip")
              /\ UNCHANGED << focusCoins, todayCoins >>
  /\ UNCHANGED << now, tabVars, sessVars, lastUpdateTime, heartbeatBuffer,
                  sessionActive, sessionStartTime, requests, calls >>
  /\ UNCHANGED server

\* HeartbeatData with action focus for every site type
HeartbeatData_focus(ev) ==
  LET siteType == getSiteType(Domain(ev.url))
  IN  [timestamp |-> ev.now, site |-> Domain(ev.url), siteType |-> siteType,
       action |-> "focus", coinsChange |-> ev.change, url |-> ev.url]

\* HeartbeatData reporting the change of the stored balance
HeartbeatData_applied(ev) ==
  LET siteType == getSiteType(Domain(ev.url))
  IN  [timestamp |-> ev.now, site |-> Domain(ev.url), siteType |-> siteType,
       action |-> IF siteType = "productive" THEN "focus" ELSE "distract",
       coinsChange |-> focusCoins - ev.coins, url |-> ev.url]

\* the record handed to addHeartbeat
HeartbeatData(ev) ==
  LET siteType == getSiteType(Domain(ev.url))
  IN  [timestamp |-> ev.now, site |-> Domain(ev.url), siteType |-> siteType,
       action |-> IF siteType = "productive" THEN "focus" ELSE "distract",
       coinsChange |-> ev.change, url |-> ev.url]

\* chrome.storage.local.set resolves: addHeartbeat (with its auto-sync), then
\* call chrome.runtime.sendMessage
StorageSetReturns(e) ==
  /\ NoRecord
  /\ evals[e].pc = "set"
  /\ heartbeatBuffer' = addHeartbeat(heartbeatBuffer, HeartbeatData(evals[e]), sessionId)
  /\ IF BufferFull(heartbeatBuffer')
       THEN /\ CanSyncHeartbeats(heartbeatBuffer', requests)
            /\ requests' = syncHeartbeats(heartbeatBuffer', requests, 0)
       ELSE requests' = requests
  /\ evals' = [evals EXCEPT ![e].pc = "notify"]
  /\ UNCHANGED << now, tabVars, sessVars, lastUpdateTime, storeVars, calls >>
  /\ UNCHANGED server

\* chrome.runtime.sendMessage resolves or rejects (popup closed)
SendMessageReturns(e) ==
  /\ Record("evaluate", "done")
  /\ evals[e].pc = "notify"
  /\ lastUpdateTime' = evals[e].now
  /\ evals' = [evals EXCEPT ![e] = IdleEval]
  /\ UNCHANGED << now, tabVars, sessVars, heartbeatBuffer, storeVars,
                  requests, calls >>
  /\ UNCHANGED server

\* tabsUpdate navigating even where chrome.tabs.update rejects
tabsUpdate_always(url, ok, tab) == IF tab = "active" THEN BlockedHost ELSE url

\* the URL of the active tab, url before, after chrome.tabs.update(tab.id,
\* {url: blockingPageUrl}) resolved (ok) or rejected; tab: whether the tab
\* updated is still the active one
tabsUpdate(url, ok, tab) == IF ok /\ tab = "active" THEN BlockedHost ELSE url

\* blockSite: chrome.tabs.update resolves (the tab shows the blocking page)
\* or rejects (the error is logged)
TabsUpdateReturns(e, ok) ==
  /\ Record("evaluate", IF ok THEN "blocked" ELSE "blockFailed")
  /\ evals[e].pc = "block"
  /\ tabUrl' = tabsUpdate(tabUrl, ok, evals[e].tab)
  /\ evals' = [evals EXCEPT ![e] = IdleEval]
  /\ UNCHANGED << now, currentTabId, sessVars, lastUpdateTime,
                  heartbeatBuffer, storeVars, requests, calls >>
  /\ UNCHANGED server

(***************************************************************************)
(* syncHeartbeats(): the periodic timer, and the segment after the await.  *)
(***************************************************************************)
\* setInterval(() => this.syncHeartbeats(), this.syncInterval) fires
SyncTimerTick ==
  /\ NoRecord
  /\ Len(heartbeatBuffer) # 0
  /\ CanSyncHeartbeats(heartbeatBuffer, requests)
  /\ requests' = syncHeartbeats(heartbeatBuffer, requests, 0)
  /\ UNCHANGED << now, tabVars, sessVars, lastUpdateTime, heartbeatBuffer,
                  storeVars, evals, calls >>
  /\ UNCHANGED server

\* afterSync clearing the buffer whatever the answer
afterSync_alwaysClears(buf, outcome) == << >>

\* afterSync never clearing the buffer
afterSync_neverClears(buf, outcome) == buf

\* the buffer after the response to a request has been handled;
\* outcome is "success" ({success: true}), "rejected" (a body without
\* success) or "error" (fetch or response.json() throws)
afterSync(buf, outcome) ==
  IF outcome = "success" THEN << >> ELSE buf

SyncOutcomes == {"success", "rejected", "error"}

\* the response to request i arrives and the rest of syncHeartbeats runs;
\* a stopSession call awaiting it goes on to call apiCall('/sessions/stop')
SyncReturns(i, outcome) ==
  /\ Record("flush", outcome)
  /\ requests[i].sent
  /\ heartbeatBuffer' = afterSync(heartbeatBuffer, outcome)
  /\ requests' = [requests EXCEPT ![i] = NoRequest]
  /\ calls' = IF requests[i].owner = 0 THEN calls
              ELSE [calls EXCEPT
                      ![requests[i].owner].pc = "api",
                      ![requests[i].owner].flush =
                         IF outcome = "success" THEN "success" ELSE "failed"]
  /\ UNCHANGED << now, tabVars, sessVars, lastUpdateTime, storeVars, evals >>
  /\ UNCHANGED server

(***************************************************************************)
(* startSession() and stopSession().                                       *)
(***************************************************************************)
HasFreeCall == \E c \in CallSlots : calls[c].pc = "idle"
FreeCall ==
  CHOOSE c \in CallSlots :
    /\ calls[c].pc = "idle"
    /\ \A d \in CallSlots : calls[d].pc = "idle" => c <= d

\* clearInterval leaving the timer registered
clearInterval_keeps(ts, t) == ts

\* the registered timers after clearInterval(t); t = 0 is null
clearInterval(ts, t) == ts \ {t}

\* crypto.randomUUID answering no id
randomUUID_null(n) == 0

\* crypto.randomUUID(), n ids having been generated: an id not used before
randomUUID(n) == n + 1

\* the id returned by setInterval: one that no registered timer has
NewTimer(ts) == CHOOSE n \in 1..(Cardinality(ts) + 1) : n \notin ts

\* message 'startSession': up to the await of chrome.storage.local.set
StartSession ==
  /\ NoRecord
  /\ HasFreeCall
  /\ sessionsStarted < MaxSessions
  /\ isSessionActive' = TRUE
  /\ sessionsStarted' = sessionsStarted + 1
  /\ sessionId' = randomUUID(sessionsStarted)
  /\ lastUpdateTime' = now
  /\ sessionActive' = TRUE
  /\ sessionStartTime' = now
  /\ calls' = [calls EXCEPT ![FreeCall] =
                 [IdleCall EXCEPT !.op = "start", !.pc = "set"]]
  /\ UNCHANGED << now, tabVars, updateTimer, timers, heartbeatBuffer,
                  focusCoins, todayCoins, evals, requests >>
  /\ UNCHANGED server

\* the storage write resolves: call apiCall('/sessions/start')
StartSetReturns(c) ==
  /\ NoRecord
  /\ calls[c].op = "start" /\ calls[c].pc = "set"
  /\ calls' = [calls EXCEPT ![c].pc = "api"]
  /\ UNCHANGED << now, tabVars, sessVars, lastUpdateTime, heartbeatBuffer,
                  storeVars, evals, requests >>
  /\ UNCHANGED server

\* apiCall('/sessions/start') resolves (ok) and startMonitoring() runs, or
\* it throws and startSession ends with that error
StartApiReturns(c, ok) ==
  /\ last' = [op |-> "start",
              arg |-> IF ~ok THEN "failed"
                      ELSE IF updateTimer = 0 THEN "started" ELSE "restarted"]
  /\ prevEvalTime' = IF ok /\ isSessionActive THEN now ELSE prevEvalTime
  /\ calls[c].op = "start" /\ calls[c].pc = "api"
  /\ calls' = [calls EXCEPT ![c] = IdleCall]
  /\ IF ok
       THEN /\ CanCallUpdateCoins(evals, isSessionActive)
            /\ evals' = updateCoins(evals, isSessionActive)
            /\ updateTimer' = NewTimer(clearInterval(timers, updateTimer))
            /\ timers' = clearInterval(timers, updateTimer) \cup {updateTimer'}
       ELSE UNCHANGED << evals, updateTimer, timers >>
  /\ UNCHANGED << now, tabVars, isSessionActive, sessionId, sessionsStarted,
                  lastUpdateTime, heartbeatBuffer, storeVars, requests >>
  /\ UNCHANGED server

\* message 'stopSession': up to the await of apiCall, either that of
\* syncHeartbeats or, with an empty buffer, that of '/sessions/stop'
StopSession ==
  /\ NoRecord
  /\ HasFreeCall
  /\ CanSyncHeartbeats(heartbeatBuffer, requests)
  /\ isSessionActive' = FALSE
  /\ timers' = clearInterval(timers, updateTimer)
  /\ updateTimer' = 0
  /\ requests' = syncHeartbeats(heartbeatBuffer, requests, FreeCall)
  /\ calls' = [calls EXCEPT ![FreeCall] =
                 [op |-> "stop",
                  pc |-> IF Len(heartbeatBuffer) = 0 THEN "api" ELSE "sync",
                  flush |-> IF Len(heartbeatBuffer) = 0 THEN "none" ELSE "sent"]]
  /\ UNCHANGED << now, tabVars, sessionId, sessionsStarted, lastUpdateTime,
                  heartbeatBuffer, storeVars, evals >>
  /\ UNCHANGED server

\* apiCall('/sessions/stop') resolves (ok): call chrome.storage.local.set;
\* or it throws and stopSession ends with that error
StopApiReturns(c, ok) ==
  /\ IF ok THEN NoRecord ELSE Record("stop", "failed")
  /\ calls[c].op = "stop" /\ calls[c].pc = "api"
  /\ IF ok
       THEN /\ sessionActive' = FALSE
            /\ sessionStartTime' = -1
            /\ calls' = [calls EXCEPT ![c].pc = "set"]
       ELSE /\ calls' = [calls EXCEPT ![c] = IdleCall]
            /\ UNCHANGED << sessionActive, sessionStartTime >>
  /\ UNCHANGED << now, tabVars, sessVars, lastUpdateTime, heartbeatBuffer,
                  focusCoins, todayCoins, evals, requests >>
  /\ UNCHANGED server

\* the storage write resolves: this.sessionId = null
StopSetReturns(c) ==
  /\ Record("stop", "done")
  /\ calls[c].op = "stop" /\ calls[c].pc = "set"
  /\ sessionId' = 0
  /\ calls' = [calls EXCEPT ![c] = IdleCall]
  /\ UNCHANGED << now, tabVars, isSessionActive, updateTimer, timers,
                  sessionsStarted, lastUpdateTime, heartbeatBuffer, storeVars,
                  evals, requests >>
  /\ UNCHANGED server

(***************************************************************************)
(* The engine with its environment.                                        *)
(***************************************************************************)
Next ==
  \/ AdvanceClock(TimeStep, MaxNow)
  \/ TimerTick
  \/ \E u \in UserUrls : TabActivated(u)
  \/ \E u \in UserUrls : TabUpdated(u)
  \/ \E e \in EvalSlots : TabsQueryReturns(e)
  \/ \E e \in EvalSlots : StorageGetReturns(e)
  \/ \E e \in EvalSlots : StorageSetReturns(e)
  \/ \E e \in EvalSlots : SendMessageReturns(e)
  \/ \E e \in EvalSlots, ok \in BOOLEAN : TabsUpdateReturns(e, ok)
  \/ SyncTimerTick
  \/ \E i \in RequestSlots, outcome \in SyncOutcomes : SyncReturns(i, outcome)
  \/ StartSession
  \/ \E c \in CallSlots : StartSetReturns(c)
  \/ \E c \in CallSlots, ok \in BOOLEAN : StartApiReturns(c, ok)
  \/ StopSession
  \/ \E c \in CallSlots, ok \in BOOLEAN : StopApiReturns(c, ok)
  \/ \E c \in CallSlots : StopSetReturns(c)

Spec == Init /\ [][Next]_vars

(***************************************************************************)
(* The engine filling its heartbeat buffer: a resumed session on a         *)
(* productive site, left running for MaxBufferTicks ticks, with the tick   *)
(* timer, the periodic sync timer and the backend's answers.               *)
(***************************************************************************)
InitBuffer ==
  /\ InitEngine(MaxEval, MaxInFlight, MaxCalls)
  /\ sessionActive
  /\ tabUrl = UrlGithub
  /\ focusCoins = InitialCoins

NextBuffer ==
  \/ AdvanceClock(coinUpdateInterval, MaxBufferTicks * coinUpdateInterval)
  \/ TimerTick
  \/ \E e \in EvalSlots : TabsQueryReturns(e)
  \/ \E e \in EvalSlots : StorageGetReturns(e)
  \/ \E e \in EvalSlots : StorageSetReturns(e)
  \/ \E e \in EvalSlots : SendMessageReturns(e)
  \/ SyncTimerTick
  \/ \E i \in RequestSlots, outcome \in SyncOutcomes : SyncReturns(i, outcome)

SpecBuffer == InitBuffer /\ [][NextBuffer]_vars

(***************************************************************************)
(* getSiteType on its own: the tab navigates through host names put        *)
(* together from at most MaxParts parts, and each is classified the way    *)
(* updateCoins() classifies it.                                            *)
(***************************************************************************)
HostParts ==
  { <<"g","i","t","h","u","b",".","c","o","m">>,
    <<"y","o","u","t","u","b","e",".","c","o","m">>,
    <<"e","d","x",".","o","r","g">>,
    <<"t","w","i","t","c","h",".","t","v">>,
    <<"w","w","w",".">>,
    <<"c","o","m">>,
    <<".">>,
    <<>> }

RECURSIVE Hosts(_)
Hosts(n) ==
  IF n = 0 THEN { <<>> }
  ELSE { h \o q : h \in Hosts(n - 1), q \in HostParts }

InitClassify ==
  /\ InitEngine(MaxEval, MaxInFlight, MaxCalls)
  /\ ~sessionActive
  /\ tabUrl = NoUrl
  /\ focusCoins = InitialCoins

\* the tab shows host name h
Navigate(h) ==
  /\ h # tabUrl
  /\ tabUrl' = h
  /\ NoRecord
  /\ UNCHANGED << now, currentTabId, sessVars, lastUpdateTime,
                  heartbeatBuffer, storeVars, evals, requests, calls >>
  /\ UNCHANGED server

\* const siteType = this.getSiteType(domain)
Classify ==
  /\ last.op = ""
  /\ Record("classify", getSiteType(Domain(tabUrl)))
  /\ UNCHANGED << now, tabVars, sessVars, lastUpdateTime, heartbeatBuffer,
                  storeVars, evals, requests, calls >>
  /\ UNCHANGED server

NextClassify ==
  \/ \E h \in Hosts(MaxParts) : Navigate(h)
  \/ Classify

SpecClassify == InitClassify /\ [][NextClassify]_vars

(***************************************************************************)
(* Overlapping updateCoins() invocations: a resumed session with one more  *)
(* invocation suspended at once than in Spec, the tab switching between a  *)
(* productive and a neutral site, followed for MaxOverlapTicks intervals.  *)
(***************************************************************************)
InitOverlap ==
  /\ InitEngine(MaxEval + 1, MaxInFlight, MaxCalls)
  /\ sessionActive
  /\ tabUrl = UrlGithub
  /\ focusCoins = InitialCoins

NextOverlap ==
  \/ AdvanceClock(coinUpdateInterval, MaxOverlapTicks * coinUpdateInterval)
  \/ TimerTick
  \/ \E u \in {UrlGithub, UrlExample} : TabActivated(u)
  \/ \E e \in EvalSlots : TabsQueryReturns(e)
  \/ \E e \in EvalSlots : StorageGetReturns(e)
  \/ \E e \in EvalSlots : StorageSetReturns(e)
  \/ \E e \in EvalSlots : SendMessageReturns(e)

SpecOverlap == InitOverlap /\ [][NextOverlap]_vars

(***************************************************************************)
(* Time on neutral sites only: a resumed session in which the clock        *)
(* advances only while the tab shows a neutral site or none; the user      *)
(* visits the other sites for no time at all.                              *)
(***************************************************************************)
InitNeutral ==
  /\ InitEngine(MaxEval, MaxInFlight, MaxCalls)
  /\ sessionActive
  /\ tabUrl = UrlExample
  /\ focusCoins = InitialCoins

\* a tick interval passes with a neutral site, or no page, in the tab
NeutralTimePasses ==
  /\ tabUrl = NoUrl \/ getSiteType(Domain(tabUrl)) = "neutral"
  /\ AdvanceClock(coinUpdateInterval, MaxNeutralTicks * coinUpdateInterval)

NextNeutral ==
  \/ NeutralTimePasses
  \/ TimerTick
  \/ \E u \in UserUrls : TabActivated(u)
  \/ \E u \in UserUrls : TabUpdated(u)
  \/ \E e \in EvalSlots : TabsQueryReturns(e)
  \/ \E e \in EvalSlots : StorageGetReturns(e)
  \/ \E e \in EvalSlots : StorageSetReturns(e)
  \/ \E e \in EvalSlots : SendMessageReturns(e)

SpecNeutral == InitNeutral /\ [][NextNeutral]_vars

(***************************************************************************)
(* Delivery followed to its end: a resumed session on a productive site    *)
(* that runs for MaxDeliverTicks ticks and may be stopped, where the       *)
(* periodic sync timer (initialize, line 60) keeps firing and the backend  *)
(* keeps accepting: a request is not answered with a failure for ever.     *)
(***************************************************************************)
InitDeliver ==
  /\ InitEngine(MaxEval, MaxInFlight, MaxCalls)
  /\ sessionActive
  /\ tabUrl = UrlGithub
  /\ focusCoins = InitialCoins

NextDeliver ==
  \/ AdvanceClock(coinUpdateInterval, MaxDeliverTicks * coinUpdateInterval)
  \/ TimerTick
  \/ \E e \in EvalSlots : TabsQueryReturns(e)
  \/ \E e \in EvalSlots : StorageGetReturns(e)
  \/ \E e \in EvalSlots : StorageSetReturns(e)
  \/ \E e \in EvalSlots : SendMessageReturns(e)
  \/ SyncTimerTick
  \/ \E i \in RequestSlots, outcome \in SyncOutcomes : SyncReturns(i, outcome)
  \/ StopSession
  \/ \E c \in CallSlots, ok \in BOOLEAN : StopApiReturns(c, ok)
  \/ \E c \in CallSlots : StopSetReturns(c)

FairDelivery ==
  /\ WF_vars(SyncTimerTick)
  /\ SF_vars(\E i \in RequestSlots : SyncReturns(i, "success"))

SpecDeliver == InitDeliver /\ [][NextDeliver]_vars /\ FairDelivery

(***************************************************************************)
(* The backend on its own: POST /api/sessions/heartbeats receives batches  *)
(* as the extension sends them, the batch of a request that was answered   *)
(* or lost being sent again.                                               *)
(***************************************************************************)
engineVars == << now, tabUrl, currentTabId, isSessionActive, sessionId,
                 lastUpdateTime, updateTimer, timers, heartbeatBuffer,
                 focusCoins, todayCoins, sessionActive, sessionStartTime,
                 evals, requests, calls, sessionsStarted, prevEvalTime >>

\* a heartbeat as updateCoins() builds it, t ms into session sid
Beat(t, siteType, change, sid) ==
  [timestamp |-> t,
   site |-> IF siteType = "productive" THEN Domain(UrlGithub) ELSE Domain(UrlYoutube),
   siteType |-> siteType,
   action |-> IF siteType = "productive" THEN "focus" ELSE "distract",
   coinsChange |-> change,
   url |-> IF siteType = "productive" THEN UrlGithub ELSE UrlYoutube,
   sessionId |-> sid]

\* the request bodies explored: batches without a record in common, one of
\* them of a resumed session (sessionId null), and an empty one
ServerBatches ==
  { << Beat(5000, "productive", 3, 1) >>,
    << Beat(10000, "productive", 6, 1), Beat(15000, "distracting", -4, 1) >>,
    << Beat(20000, "productive", 3, 0) >>,
    << >> }

HasFreePost == \E p \in PostSlots : server.posts[p].pc = "idle"
FreePost ==
  CHOOSE p \in PostSlots :
    /\ server.posts[p].pc = "idle"
    /\ \A q \in PostSlots : server.posts[q].pc = "idle" => p <= q

\* a request with body {uuid, heartbeats: batch} arrives: getOrCreateUser
\* calls User.findOne
PostHeartbeats(batch) ==
  /\ NoRecord
  /\ HasFreePost
  /\ server.received < MaxReceived
  /\ server' = [server EXCEPT !.received = @ + 1,
                              !.posts[FreePost] =
                                 [pc |-> "user", batch |-> batch, user |-> 0]]
  /\ UNCHANGED engineVars

\* User.findOne resolves: the handler checks the array and calls
\* Heartbeat.insertMany, or answers 400
FindUserReturns(p) ==
  /\ server.posts[p].pc = "user"
  /\ IF Len(server.posts[p].batch) = 0
       THEN /\ server' = [server EXCEPT
                              !.posts[p] = IdlePost,
                              !.lastActive = IF @ = -1 THEN now ELSE @]
            /\ Record("post", "badRequest")
       ELSE /\ server' = [server EXCEPT
                              !.posts[p].pc = "insert",
                              !.posts[p].user = server.totalCoins,
                              !.lastActive = IF @ = -1 THEN now ELSE @]
            /\ NoRecord
  /\ UNCHANGED engineVars

\* Heartbeat.insertMany resolves (ok: the documents are stored, the handler
\* adds the sum to req.user.stats.totalCoins and calls req.user.save) or
\* rejects (validation or database error: the handler answers 500)
InsertManyReturns(p, ok) ==
  /\ server.posts[p].pc = "insert"
  /\ ok => \A k \in 1..Len(server.posts[p].batch) :
             ValidHeartbeat(server.posts[p].batch[k])
  /\ IF ok
       THEN /\ server' =
                 [server EXCEPT
                    !.heartbeats = @ \o processedHeartbeats(server.posts[p].batch),
                    !.posts[p].pc = "save",
                    !.posts[p].user = @ + totalCoinsChange(server.posts[p].batch)]
            /\ NoRecord
       ELSE /\ server' = [server EXCEPT !.posts[p] = IdlePost]
            /\ Record("post", "error")
  /\ UNCHANGED engineVars

\* req.user.save resolves (ok: the handler answers success) or rejects (500)
SaveReturns(p, ok) ==
  /\ server.posts[p].pc = "save"
  /\ server' = [server EXCEPT
                  !.totalCoins = IF ok THEN server.posts[p].user ELSE @,
                  !.posts[p] = IdlePost]
  /\ Record("post", IF ok THEN "success" ELSE "error")
  /\ UNCHANGED engineVars

InitServerOnly ==
  /\ InitEngine(MaxEval, MaxInFlight, MaxCalls)
  /\ ~sessionActive
  /\ tabUrl = NoUrl
  /\ focusCoins = InitialCoins

NextServer ==
  \/ \E batch \in ServerBatches : PostHeartbeats(batch)
  \/ \E p \in PostSlots : FindUserReturns(p)
  \/ \E p \in PostSlots, ok \in BOOLEAN : InsertManyReturns(p, ok)
  \/ \E p \in PostSlots, ok \in BOOLEAN : SaveReturns(p, ok)

SpecServer == InitServerOnly /\ [][NextServer]_vars

(***************************************************************************)
(* Overlapping startSession()/stopSession() calls: the engine idle at      *)
(* first, with one more call suspended at once than in Spec and a backend  *)
(* that answers every lifecycle call, followed for MaxCallTicks intervals. *)
(***************************************************************************)
InitCalls ==
  /\ InitEngine(MaxEval, MaxInFlight, MaxCalls + 1)
  /\ ~sessionActive

NextCalls ==
  \/ AdvanceClock(coinUpdateInterval, MaxCallTicks * coinUpdateInterval)
  \/ TimerTick
  \/ \E u \in UserUrls : TabActivated(u)
  \/ \E u \in UserUrls : TabUpdated(u)
  \/ \E e \in EvalSlots : TabsQueryReturns(e)
  \/ \E e \in EvalSlots : StorageGetReturns(e)
  \/ \E e \in EvalSlots : StorageSetReturns(e)
  \/ \E e \in EvalSlots : SendMessageReturns(e)
  \/ \E e \in EvalSlots, ok \in BOOLEAN : TabsUpdateReturns(e, ok)
  \/ \E i \in RequestSlots, outcome \in SyncOutcomes : SyncReturns(i, outcome)
  \/ StartSession
  \/ \E c \in CallSlots : StartSetReturns(c)
  \/ \E c \in CallSlots : StartApiReturns(c, TRUE)
  \/ StopSession
  \/ \E c \in CallSlots : StopApiReturns(c, TRUE)
  \/ \E c \in CallSlots : StopSetReturns(c)

SpecCalls == InitCalls /\ [][NextCalls]_vars

(***************************************************************************)
(* Depletion followed without an end: a resumed session with the active    *)
(* tab on a distracting site, which the user keeps navigating within.  The *)
(* engine uses Date.now() in differences only (lines 170, 192), so while   *)
(* no invocation and no heartbeat holds a time, the epoch the clock counts *)
(* from is moved up to this.lastUpdateTime: the clock stays bounded and    *)
(* the session goes on for ever.                                           *)
(***************************************************************************)
DistractingUrls == {UrlYoutube, UrlYoutubeMobile}

InitDrain ==
  /\ InitEngine(MaxEval, MaxInFlight, MaxCalls)
  /\ sessionActive
  /\ tabUrl = UrlYoutube
  /\ focusCoins = InitialCoins

\* the epoch of Date.now() moves up by this.lastUpdateTime
MoveEpoch ==
  /\ lastUpdateTime > 0
  /\ \A e \in EvalSlots : evals[e].pc = "idle"
  /\ heartbeatBuffer = << >>
  /\ \A i \in RequestSlots : ~requests[i].sent
  /\ now' = now - lastUpdateTime
  /\ lastUpdateTime' = 0
  /\ prevEvalTime' = IF prevEvalTime >= lastUpdateTime
                       THEN prevEvalTime - lastUpdateTime ELSE -1
  /\ last' = [op |-> "", arg |-> ""]
  /\ UNCHANGED << tabVars, sessVars, heartbeatBuffer, storeVars, evals,
                  requests, calls >>
  /\ UNCHANGED server

NextDrain ==
  \/ AdvanceClock(TimeStep, MaxDrainSteps * TimeStep)
  \/ MoveEpoch
  \/ TimerTick
  \/ \E u \in DistractingUrls : TabActivated(u)
  \/ \E u \in DistractingUrls : TabUpdated(u)
  \/ \E e \in EvalSlots : TabsQueryReturns(e)
  \/ \E e \in EvalSlots : StorageGetReturns(e)
  \/ \E e \in EvalSlots : StorageSetReturns(e)
  \/ \E e \in EvalSlots : SendMessageReturns(e)
  \/ \E e \in EvalSlots, ok \in BOOLEAN : TabsUpdateReturns(e, ok)

\* time keeps passing, the interval timer keeps firing while it is
\* registered and every updateCoins() invocation runs to its end
DrainGoesOn ==
  /\ WF_vars(AdvanceClock(TimeStep, MaxDrainSteps * TimeStep))
  /\ SF_vars(MoveEpoch)
  /\ SF_vars(TimerTick)
  /\ WF_vars(\E e \in EvalSlots : TabsQueryReturns(e))
  /\ WF_vars(\E e \in EvalSlots : StorageGetReturns(e))
  /\ WF_vars(\E e \in EvalSlots : StorageSetReturns(e))
  /\ WF_vars(\E e \in EvalSlots : SendMessageReturns(e))
  /\ WF_vars(\E e \in EvalSlots, ok \in BOOLEAN : TabsUpdateReturns(e, ok))

SpecDrain == InitDrain /\ [][NextDrain]_vars /\ DrainGoesOn

(***************************************************************************)
(* Flushes that meet: a resumed session on a productive site with one more *)
(* request in flight at once than in Spec and a backend that accepts every *)
(* batch, where the periodic sync timer and the final flush of             *)
(* stopSession() may call syncHeartbeats() while a request is in flight.   *)
(***************************************************************************)
InitFlush ==
  /\ InitEngine(MaxEval, MaxInFlight + 1, MaxCalls)
  /\ sessionActive
  /\ tabUrl = UrlGithub
  /\ focusCoins = InitialCoins

NextFlush ==
  \/ AdvanceClock(coinUpdateInterval, MaxDeliverTicks * coinUpdateInterval)
  \/ TimerTick
  \/ \E e \in EvalSlots : TabsQueryReturns(e)
  \/ \E e \in EvalSlots : StorageGetReturns(e)
  \/ \E e \in EvalSlots : StorageSetReturns(e)
  \/ \E e \in EvalSlots : SendMessageReturns(e)
  \/ SyncTimerTick
  \/ \E i \in RequestSlots : SyncReturns(i, "success")
  \/ StopSession
  \/ \E c \in CallSlots : StopApiReturns(c, TRUE)
  \/ \E c \in CallSlots : StopSetReturns(c)

SpecFlush == InitFlush /\ [][NextFlush]_vars

(***************************************************************************)
(* The global leaderboard on its own: GET /api/leaderboard/global is       *)
(* requested with varying sort keys while the backend's clock advances and *)
(* users sign in with Google.                                              *)
(***************************************************************************)
\* the cache test of router.get('/global'), for a request that arrived at t
cacheHit(cache, sortBy, t) ==
  /\ cache.lastUpdated # -1 /\ cache.lastUpdated # 0
  /\ t - cache.lastUpdated < CACHE_DURATION
  /\ cache.data[sortBy].set

HasFreeGet == \E q \in GetSlots : server.gets[q].pc = "idle"
FreeGet ==
  CHOOSE q \in GetSlots :
    /\ server.gets[q].pc = "idle"
    /\ \A r \in GetSlots : server.gets[r].pc = "idle" => q <= r

\* POST /api/auth/google creates a user linked to a Google account
GoogleSignIn ==
  /\ NoRecord
  /\ server.listed < MaxListed
  /\ server' = [server EXCEPT !.listed = @ + 1]
  /\ UNCHANGED engineVars

\* a request for sort key sortBy arrives: it is refused (limit above 100),
\* answered from the cache, or User.find is called
GetGlobal(sortBy, limit) ==
  /\ HasFreeGet
  /\ IF limit > 100
       THEN /\ Record("leaderboard", "badRequest")
            /\ UNCHANGED server
       ELSE IF cacheHit(server.cache, sortBy, now)
         THEN /\ Record("leaderboard", "cached")
              /\ server' = [server EXCEPT !.answer =
                    [sortBy |-> sortBy, cached |-> TRUE, at |-> now,
                     generated |-> server.cache.data[sortBy].at]]
         ELSE /\ NoRecord
              /\ server' = [server EXCEPT !.gets[FreeGet] =
                    [pc |-> "find", sortBy |-> sortBy, now |-> now]]
  /\ UNCHANGED engineVars

\* User.find resolves with the listed users or rejects: the rows are built
\* (this.getUserBadge is not a function in the arrow function handler, so a
\* list that is not empty throws), the cache is updated and the page is
\* answered; or 500 is answered
FindUsersReturns(q, ok) ==
  /\ server.gets[q].pc = "find"
  /\ IF ok /\ server.listed = 0
       THEN /\ Record("leaderboard", "fresh")
            /\ server' = [server EXCEPT
                  !.cache.data[server.gets[q].sortBy] =
                     [set |-> TRUE, totalUsers |-> server.listed, at |-> now],
                  !.cache.lastUpdated = server.gets[q].now,
                  !.answer = [sortBy |-> server.gets[q].sortBy,
                              cached |-> FALSE, at |-> server.gets[q].now,
                              generated |-> now],
                  !.gets[q] = IdleGet]
       ELSE /\ Record("leaderboard", "error")
            /\ server' = [server EXCEPT !.gets[q] = IdleGet]
  /\ UNCHANGED engineVars

NextLeaderboard ==
  \/ AdvanceClock(CacheStep, MaxCacheSteps * CacheStep)
  \/ GoogleSignIn
  \/ \E sortBy \in SortKeys, limit \in {50, 101} : GetGlobal(sortBy, limit)
  \/ \E q \in GetSlots, ok \in BOOLEAN : FindUsersReturns(q, ok)

SpecLeaderboard == InitServerOnly /\ [][NextLeaderboard]_vars

(***************************************************************************)
(* Aggregation on its own: heartbeats are posted as they are recorded,     *)
(* sessions are started, and the hourly and daily cron jobs of             *)
(* AggregationService run, hour by hour for MaxAggregateHours hours and    *)
(* again IdleHours hours later; the queries of a run succeed.              *)
(***************************************************************************)
\* hb.timestamp.toISOString().split('T')[0], as days since the epoch
dateKey(t) == t \div DayMs

\* the heartbeats of hbs with startTime <= timestamp < endTime
RECURSIVE Between(_, _, _)
Between(hbs, startTime, endTime) ==
  IF Len(hbs) = 0 THEN << >>
  ELSE IF hbs[1].timestamp >= startTime /\ hbs[1].timestamp < endTime
    THEN << hbs[1] >> \o Between(Tail(hbs), startTime, endTime)
    ELSE Between(Tail(hbs), startTime, endTime)

\* the date keys of hbs in the order they are first met
RECURSIVE dateKeys(_, _)
dateKeys(hbs, seen) ==
  IF Len(hbs) = 0 THEN << >>
  ELSE IF dateKey(hbs[1].timestamp) \in seen
    THEN dateKeys(Tail(hbs), seen)
    ELSE << dateKey(hbs[1].timestamp) >>
           \o dateKeys(Tail(hbs), seen \cup {dateKey(hbs[1].timestamp)})

\* the sum of a sequence of numbers
RECURSIVE Sum(_)
Sum(ns) == IF Len(ns) = 0 THEN 0 ELSE ns[1] + Sum(Tail(ns))

\* dailyData[date] of aggregateUserData for the heartbeats hbs
dailyData(hbs, date) ==
  LET day == Between(hbs, date * DayMs, (date + 1) * DayMs)
      earned == [k \in 1..Len(day) |->
                   IF day[k].coinsChange > 0 THEN day[k].coinsChange ELSE 0]
      spent == [k \in 1..Len(day) |->
                  IF day[k].coinsChange < 0 THEN 0 - day[k].coinsChange ELSE 0]
      productive == [k \in 1..Len(day) |->
                       IF day[k].siteType = "productive" THEN 5 ELSE 0]
      distracting == [k \in 1..Len(day) |->
                        IF day[k].siteType = "distracting" THEN 5 ELSE 0]
  IN  [set |-> TRUE,
       totalFocusTime |-> Sum(productive),
       coinsEarned |-> Sum(earned),
       coinsSpent |-> Sum(spent),
       productiveTime |-> Sum(productive),
       distractingTime |-> Sum(distracting),
       sessionsCount |->
         Cardinality({hbs[k].sessionId : k \in
                        {n \in 1..Len(hbs) : dateKey(hbs[n].timestamp) = date}})]

\* totalCoins of updateUserStats for the DailyStats documents daily
RECURSIVE statsCoins(_, _)
statsCoins(daily, dates) ==
  IF dates = {} THEN 0
  ELSE LET d == CHOOSE x \in dates : TRUE
       IN  (IF daily[d].set THEN daily[d].coinsEarned - daily[d].coinsSpent ELSE 0)
             + statsCoins(daily, dates \ {d})

\* the request bodies explored: one heartbeat recorded now, in session sid
AggregateBatches ==
  { << Beat(now, "productive", 3, sid) >> : sid \in 1..2 }
    \cup { << Beat(now, "distracting", -4, 1) >> }

\* POST /api/sessions/start has saved the user with lastActive = new Date()
SessionStartSaved ==
  /\ NoRecord
  /\ server.lastActive # now
  /\ server' = [server EXCEPT !.lastActive = now]
  /\ UNCHANGED engineVars

HasFreeRun == \E a \in RunSlots : server.runs[a].pc = "idle"
FreeRun ==
  CHOOSE a \in RunSlots :
    /\ server.runs[a].pc = "idle"
    /\ \A b \in RunSlots : server.runs[b].pc = "idle" => a <= b

\* cron '0 * * * *' fires: aggregateRecentData() up to await User.find
aggregateRecentData ==
  /\ NoRecord
  /\ now % HourMs = 0
  /\ HasFreeRun
  /\ server' = [server EXCEPT !.runs[FreeRun] =
        [IdleRun EXCEPT !.pc = "users", !.startTime = now - HourMs,
                        !.endTime = now]]
  /\ UNCHANGED engineVars

\* cron '0 0 * * *' fires: aggregateDailyData() up to await User.find
aggregateDailyData ==
  /\ NoRecord
  /\ now % DayMs = 0
  /\ HasFreeRun
  /\ server' = [server EXCEPT !.runs[FreeRun] =
        [IdleRun EXCEPT !.pc = "users", !.startTime = now - DayMs,
                        !.endTime = now, !.isDailyFinal = TRUE]]
  /\ UNCHANGED engineVars

\* User.find resolves: aggregateUserData() is called for the user if the
\* query selected it, up to await Heartbeat.find
UserFindReturns(a) ==
  /\ server.runs[a].pc = "users"
  /\ IF /\ server.lastActive # -1
        /\ server.runs[a].isDailyFinal
             \/ server.lastActive >= server.runs[a].startTime
       THEN /\ NoRecord
            /\ server' = [server EXCEPT !.runs[a].pc = "beats"]
       ELSE /\ Record("aggregate", "noUser")
            /\ server' = [server EXCEPT !.runs[a] = IdleRun]
  /\ UNCHANGED engineVars

\* Heartbeat.find resolves: return, or group the heartbeats by date and
\* call DailyStats.findOneAndUpdate for the first date
HeartbeatFindReturns(a) ==
  /\ server.runs[a].pc = "beats"
  /\ LET heartbeats == Between(server.heartbeats, server.runs[a].startTime,
                               server.runs[a].endTime)
     IN IF Len(heartbeats) = 0
          THEN /\ Record("aggregate", "empty")
               /\ server' = [server EXCEPT !.runs[a] = IdleRun]
          ELSE /\ NoRecord
               /\ server' = [server EXCEPT
                     !.runs[a].pc = "save",
                     !.runs[a].heartbeats = heartbeats,
                     !.runs[a].stored = Len(server.heartbeats),
                     !.runs[a].dates = dateKeys(heartbeats, {})]
  /\ UNCHANGED engineVars

\* DailyStats.findOneAndUpdate resolves, the document of the date written:
\* the next date is saved, updateUserStats() calls DailyStats.find, or the
\* run ends
StatsUpsertReturns(a) ==
  /\ server.runs[a].pc = "save"
  /\ LET date == Head(server.runs[a].dates)
         rest == Tail(server.runs[a].dates)
     IN /\ server' = [server EXCEPT
              !.daily[date] = dailyData(server.runs[a].heartbeats, date),
              !.runs[a] = IF Len(rest) > 0 THEN [@ EXCEPT !.dates = rest]
                          ELSE IF @.isDailyFinal
                                 THEN [@ EXCEPT !.dates = rest, !.pc = "stats"]
                                 ELSE IdleRun]
        /\ IF Len(rest) = 0 /\ ~server.runs[a].isDailyFinal
             THEN Record("aggregate", "hourly") ELSE NoRecord
  /\ UNCHANGED engineVars

\* DailyStats.find of updateUserStats() resolves: the totals are computed
\* and User.findByIdAndUpdate is called
DailyStatsFindReturns(a) ==
  /\ NoRecord
  /\ server.runs[a].pc = "stats"
  /\ server' = [server EXCEPT
        !.runs[a].pc = "update",
        !.runs[a].totalCoins = statsCoins(server.daily, Dates)]
  /\ UNCHANGED engineVars

\* User.findByIdAndUpdate resolves, stats.totalCoins written
UserUpdateReturns(a) ==
  /\ Record("aggregate", "daily")
  /\ server.runs[a].pc = "update"
  /\ server' = [server EXCEPT !.totalCoins = server.runs[a].totalCoins,
                              !.runs[a] = IdleRun]
  /\ UNCHANGED engineVars

NextAggregate ==
  \/ AdvanceClock(HourMs, MaxAggregateHours * HourMs)
  \/ AdvanceClock(IdleHours * HourMs, (MaxAggregateHours + IdleHours) * HourMs)
  \/ \E batch \in AggregateBatches : PostHeartbeats(batch)
  \/ \E p \in PostSlots : FindUserReturns(p)
  \/ \E p \in PostSlots : InsertManyReturns(p, TRUE)
  \/ \E p \in PostSlots : SaveReturns(p, TRUE)
  \/ SessionStartSaved
  \/ aggregateRecentData
  \/ aggregateDailyData
  \/ \E a \in RunSlots : UserFindReturns(a)
  \/ \E a \in RunSlots : HeartbeatFindReturns(a)
  \/ \E a \in RunSlots : StatsUpsertReturns(a)
  \/ \E a \in RunSlots : DailyStatsFindReturns(a)
  \/ \E a \in RunSlots : UserUpdateReturns(a)

SpecAggregate == InitServerOnly /\ [][NextAggregate]_vars

(***************************************************************************)
(* Powerups on their own: the user earns coins with heartbeats and         *)
(* requests to POST /api/user/powerups/:uuid are handled, more than one at *)
(* once.                                                                   *)
(***************************************************************************)
PowerupTypes == {"streakSaver", "doubleXP", "other"}

\* the price of a powerup
Cost(powerupType) ==
  IF powerupType = "streakSaver" THEN StreakSaverCost ELSE DoubleXPCost

\* the test of the handler: the powerup is known and the totalCoins of the
\* document loaded cover its price
canBuy(powerupType, totalCoins) ==
  \/ powerupType = "streakSaver" /\ totalCoins >= StreakSaverCost
  \/ powerupType = "doubleXP" /\ totalCoins >= DoubleXPCost

\* the request body explored: a heartbeat that credits EarnedTicks ticks
EarningBatch == << Beat(now, "productive", EarnedTicks * ProductiveRate, 1) >>

HasFreeBuy == \E b \in BuySlots : server.buys[b].pc = "idle"
FreeBuy ==
  CHOOSE b \in BuySlots :
    /\ server.buys[b].pc = "idle"
    /\ \A c \in BuySlots : server.buys[c].pc = "idle" => b <= c

\* a request with body {powerupType} arrives: getUser calls User.findOne
PostPowerups(powerupType) ==
  /\ NoRecord
  /\ HasFreeBuy
  /\ server' = [server EXCEPT !.buys[FreeBuy] =
        [pc |-> "user", powerupType |-> powerupType, user |-> 0]]
  /\ UNCHANGED engineVars

\* User.findOne resolves: 404 without a user; otherwise the handler tests
\* the loaded document and calls User.findByIdAndUpdate, or answers 400
GetUserReturns(b) ==
  /\ server.buys[b].pc = "user"
  /\ IF server.lastActive = -1
       THEN /\ Record("powerup", "notFound")
            /\ server' = [server EXCEPT !.buys[b] = IdleBuy]
       ELSE IF canBuy(server.buys[b].powerupType, server.totalCoins)
         THEN /\ NoRecord
              /\ server' = [server EXCEPT !.buys[b].pc = "update",
                                          !.buys[b].user = server.totalCoins]
         ELSE /\ Record("powerup", "refused")
              /\ server' = [server EXCEPT !.buys[b] = IdleBuy]
  /\ UNCHANGED engineVars

\* User.findByIdAndUpdate resolves ($inc applied to the stored document,
\* lastActive set) or rejects (500)
PowerupUpdateReturns(b, ok) ==
  /\ server.buys[b].pc = "update"
  /\ Record("powerup", IF ok THEN "success" ELSE "error")
  /\ server' = [server EXCEPT
        !.totalCoins = IF ok THEN @ - Cost(server.buys[b].powerupType) ELSE @,
        !.lastActive = IF ok THEN now ELSE @,
        !.buys[b] = IdleBuy]
  /\ UNCHANGED engineVars

NextPowerups ==
  \/ PostHeartbeats(EarningBatch)
  \/ \E p \in PostSlots : FindUserReturns(p)
  \/ \E p \in PostSlots : InsertManyReturns(p, TRUE)
  \/ \E p \in PostSlots : SaveReturns(p, TRUE)
  \/ \E powerupType \in PowerupTypes : PostPowerups(powerupType)
  \/ \E b \in BuySlots : GetUserReturns(b)
  \/ \E b \in BuySlots, ok \in BOOLEAN : PowerupUpdateReturns(b, ok)

SpecPowerups == InitServerOnly /\ [][NextPowerups]_vars

(***************************************************************************)
(* Properties.  A step of one updateCoins() invocation is recognised by    *)
(* the position of its slot before and after the step.                     *)
(***************************************************************************)
\* slot e runs the code after chrome.storage.local.get (lines 188-213)
Computes(e) == evals[e].pc = "get" /\ evals'[e].pc # "get"

\* slot e runs the code after chrome.storage.local.set (lines 219-231)
Appends(e) == evals[e].pc = "set" /\ evals'[e].pc = "notify"

\* slot e runs the code after chrome.runtime.sendMessage (line 242)
Completes(e) == evals[e].pc = "notify" /\ evals'[e].pc = "idle"

SiteOf(e) == getSiteType(Domain(evals[e].url))

LastOf(buf) == buf[Len(buf)]

SentCount(reqs) == Cardinality({i \in DOMAIN reqs : reqs[i].sent})

\* C1. The persisted balance focusCoins is never negative after any step of
\* the engine, and an evaluation on a distracting site that read a positive
\* balance b with k ticks elapsed, b - 4k < 0, writes exactly 0 (with b = 0
\* it writes nothing).
C1_BalanceNeverNegative ==
  [][ /\ focusCoins' >= 0
      /\ \A e \in EvalSlots :
           ( /\ Computes(e)
             /\ SiteOf(e) = "distracting"
             /\ intervalsElapsed(now) >= 1
             /\ evals[e].coins - 4 * intervalsElapsed(now) < 0 )
           => focusCoins' = IF evals[e].coins > 0 THEN 0 ELSE focusCoins
    ]_vars

\* C1 witness: an evaluation on a distracting site has just written the
\* clamped balance 0 where balance + delta is negative.
C1_Witness ==
  \E e \in EvalSlots :
    /\ evals[e].pc = "set"
    /\ SiteOf(e) = "distracting"
    /\ evals[e].coins > 0
    /\ evals[e].coins + evals[e].change < 0
    /\ focusCoins = 0

\* C2. No heartbeat is lost: every record that leaves the heartbeat buffer in
\* a step belongs to the batch of a request whose success response is handled
\* in that step.
C2_NoHeartbeatLost ==
  [][ \A k \in 1..Len(heartbeatBuffer) :
        \/ \E j \in 1..Len(heartbeatBuffer') :
             heartbeatBuffer'[j] = heartbeatBuffer[k]
        \/ \E i \in RequestSlots :
             /\ requests[i].sent /\ ~requests'[i].sent
             /\ last'.op = "flush" /\ last'.arg = "success"
             /\ \E j \in 1..Len(requests[i].batch) :
                  requests[i].batch[j] = heartbeatBuffer[k]
    ]_vars

\* C3. Handling a failed flush (a thrown error, or a response that does not
\* report success) leaves the heartbeat buffer unchanged: same records, same
\* order, same length.
C3_FailedFlushKeepsBuffer ==
  [][ (last'.op = "flush" /\ last'.arg \in {"rejected", "error"})
        => heartbeatBuffer' = heartbeatBuffer ]_vars

\* C3 witness: a failed flush has just been handled and its records are
\* still buffered.
C3_Witness ==
  /\ last.op = "flush"
  /\ last.arg \in {"rejected", "error"}
  /\ Len(heartbeatBuffer) > 0

\* C4. Handling the success response of a flush leaves the heartbeat buffer
\* empty.
C4_ConfirmedFlushEmptiesBuffer ==
  [][ (last'.op = "flush" /\ last'.arg = "success")
        => heartbeatBuffer' = << >> ]_vars

\* C4 witness: a success response has just been handled.
C4_Witness ==
  /\ last.op = "flush"
  /\ last.arg = "success"
  /\ heartbeatBuffer = << >>

\* C5. The heartbeat buffer never holds more than maxBufferSize records.
C5_BufferBounded == Len(heartbeatBuffer) <= maxBufferSize

\* C6. An append that brings the buffer to maxBufferSize records issues
\* exactly one sync request, carrying the buffer; an append that leaves it
\* shorter issues none.
C6_FlushOnFull ==
  [][ \A e \in EvalSlots : Appends(e) =>
        /\ Len(heartbeatBuffer') = Len(heartbeatBuffer) + 1
        /\ (Len(heartbeatBuffer') = 10) =>
             /\ SentCount(requests') = SentCount(requests) + 1
             /\ \E i \in RequestSlots :
                  /\ ~requests[i].sent
                  /\ requests'[i].sent
                  /\ requests'[i].batch = heartbeatBuffer'
                  /\ \A j \in RequestSlots \ {i} : requests'[j] = requests[j]
        /\ (Len(heartbeatBuffer') < 10) => requests' = requests
    ]_vars

\* C6 witness: the tenth record has just been appended and the request with
\* the ten records is in flight.
C6_Witness ==
  /\ Len(heartbeatBuffer) = 10
  /\ \E e \in EvalSlots : evals[e].pc = "notify"
  /\ \E i \in RequestSlots :
       requests[i].sent /\ requests[i].batch = heartbeatBuffer

\* C7 as stated. An updateCoins() invocation that reads the clock less than
\* one tick interval after the invocation before it began, in an active
\* session, changes neither focusCoins nor todayCoins and goes on to append
\* no heartbeat.
C7_SecondEvaluationIsNoOp ==
  [][ \A e \in EvalSlots :
        (Computes(e) /\ evals[e].prev >= 0)
          => /\ focusCoins' = focusCoins
             /\ todayCoins' = todayCoins
             /\ evals'[e].pc # "set"
    ]_vars

\* C7. An updateCoins() invocation whose clock reading is less than one tick
\* interval after lastUpdateTime changes neither focusCoins nor todayCoins,
\* appends no heartbeat and ends there.
C7_NoOpWithinTickOfLastUpdate ==
  [][ \A e \in EvalSlots :
        (Computes(e) /\ now - lastUpdateTime < 5000)
          => /\ focusCoins' = focusCoins
             /\ todayCoins' = todayCoins
             /\ heartbeatBuffer' = heartbeatBuffer
             /\ lastUpdateTime' = lastUpdateTime
             /\ evals'[e].pc = "idle"
    ]_vars

\* C7 witness: an invocation has just ended as a no-op, less than one tick
\* interval after the invocation that appended the last heartbeat.
C7_Witness ==
  /\ last = [op |-> "evaluate", arg |-> "skip"]
  /\ Len(heartbeatBuffer) > 0
  /\ LastOf(heartbeatBuffer).timestamp = lastUpdateTime
  /\ now - lastUpdateTime < 5000

C9_ProductiveAccrual ==
  [][ \A e \in EvalSlots :
        /\ ( /\ Computes(e)
             /\ SiteOf(e) = "productive"
             /\ intervalsElapsed(now) >= 1 )
           => /\ focusCoins' = evals[e].coins + 3 * intervalsElapsed(now)
              /\ todayCoins' = evals[e].today + 3 * intervalsElapsed(now)
              /\ evals'[e].pc = "set"
              /\ evals'[e].change = 3 * intervalsElapsed(now)
              /\ evals'[e].now = now
        /\ (Appends(e) /\ SiteOf(e) = "productive")
           => /\ Len(heartbeatBuffer') = Len(heartbeatBuffer) + 1
              /\ SubSeq(heartbeatBuffer', 1, Len(heartbeatBuffer)) = heartbeatBuffer
              /\ LastOf(heartbeatBuffer').coinsChange = evals[e].change
              /\ LastOf(heartbeatBuffer').action = "focus"
        /\ (Completes(e) /\ SiteOf(e) = "productive")
           => /\ lastUpdateTime' = evals[e].now
              /\ heartbeatBuffer' = heartbeatBuffer
    ]_vars

\* C9 witness: the invocation that read balance 10 with 3 ticks elapsed on a
\* productive site has written 19 and appended a heartbeat with coinsChange 9.
C9_Witness ==
  \E e \in EvalSlots :
    /\ evals[e].pc = "notify"
    /\ SiteOf(e) = "productive"
    /\ evals[e].coins = 10
    /\ evals[e].change = 9
    /\ focusCoins = 19
    /\ todayCoins = evals[e].today + 9
    /\ LastOf(heartbeatBuffer).coinsChange = 9
    /\ LastOf(heartbeatBuffer).action = "focus"

\* C10. An updateCoins() invocation that read balance b > 0 and todayCoins t
\* on a distracting site with k >= 1 whole ticks elapsed writes balance
\* max(0, b - 4k) and todayCoins t, does not call blockSite, appends exactly
\* one heartbeat with action distract, and sets lastUpdateTime to its clock
\* reading.
C10_DistractingAccrual ==
  [][ \A e \in EvalSlots :
        /\ ( /\ Computes(e)
             /\ SiteOf(e) = "distracting"
             /\ evals[e].coins > 0
             /\ intervalsElapsed(now) >= 1 )
           => /\ focusCoins' =
                   IF evals[e].coins - 4 * intervalsElapsed(now) > 0
                     THEN evals[e].coins - 4 * intervalsElapsed(now)
                     ELSE 0
              /\ todayCoins' = evals[e].today
              /\ evals'[e].pc = "set"
              /\ evals'[e].now = now
        /\ (Appends(e) /\ SiteOf(e) = "distracting")
           => /\ Len(heartbeatBuffer') = Len(heartbeatBuffer) + 1
              /\ SubSeq(heartbeatBuffer', 1, Len(heartbeatBuffer)) = heartbeatBuffer
              /\ LastOf(heartbeatBuffer').action = "distract"
        /\ (Completes(e) /\ SiteOf(e) = "distracting")
           => /\ lastUpdateTime' = evals[e].now
              /\ heartbeatBuffer' = heartbeatBuffer
    ]_vars

\* C10 witness: an invocation that read a positive balance on a distracting
\* site has ended after writing the lower balance and appending its
\* heartbeat.
C10_Witness ==
  /\ last = [op |-> "evaluate", arg |-> "done"]
  /\ Len(heartbeatBuffer) > 0
  /\ LastOf(heartbeatBuffer).action = "distract"
  /\ LastOf(heartbeatBuffer).timestamp = lastUpdateTime
  /\ focusCoins = InitialCoins + LastOf(heartbeatBuffer).coinsChange
  /\ todayCoins = 0

\* C11. An updateCoins() invocation that read balance 0 on a distracting
\* site with at least one tick elapsed calls blockSite and changes neither
\* focusCoins, todayCoins, the heartbeat buffer nor lastUpdateTime, up to and
\* including the answer of chrome.tabs.update, which can only put the
\* blocking page in the tab; blockSite is called in no other situation.
C11_BlockOnlyAtZeroBalance ==
  [][ \A e \in EvalSlots :
        /\ ( /\ Computes(e)
             /\ SiteOf(e) = "distracting"
             /\ evals[e].coins = 0
             /\ intervalsElapsed(now) >= 1 )
           => /\ evals'[e].pc = "block"
              /\ evals'[e].url = evals[e].url
              /\ UNCHANGED << focusCoins, todayCoins, heartbeatBuffer,
                              lastUpdateTime, tabUrl >>
        /\ (evals[e].pc # "block" /\ evals'[e].pc = "block")
           => /\ Computes(e)
              /\ SiteOf(e) = "distracting"
              /\ evals[e].coins = 0
              /\ intervalsElapsed(now) >= 1
        /\ (evals[e].pc = "block" /\ evals'[e].pc # "block")
           => /\ evals'[e].pc = "idle"
              /\ UNCHANGED << focusCoins, todayCoins, heartbeatBuffer,
                              lastUpdateTime >>
              /\ tabUrl' \in {tabUrl, BlockedHost}
    ]_vars

\* C11 witness: the invocation that found balance 0 on the distracting site
\* has ended with the tab on the blocking page and nothing recorded.
C11_Witness ==
  /\ last = [op |-> "evaluate", arg |-> "blocked"]
  /\ tabUrl = BlockedHost
  /\ focusCoins = 0
  /\ todayCoins = 0
  /\ heartbeatBuffer = << >>
  /\ now - lastUpdateTime >= 5000

\* t occurs in s, stated by the cut points of s
IsSubstring(t, s) ==
  \E a \in 0..Len(s) : \E b \in a..Len(s) : SubSeq(s, a + 1, b) = t

MatchesProductive(d) ==
  \E i \in DOMAIN productiveSites : IsSubstring(productiveSites[i], d)

MatchesDistracting(d) ==
  \E i \in DOMAIN distractingSites : IsSubstring(distractingSites[i], d)

\* C12. getSiteType answers productive if an entry of the productive list is
\* a substring of its argument, otherwise distracting if an entry of the
\* distracting list is, otherwise neutral: it always answers one of the
\* three, productive for an argument matching both lists and neutral for one
\* matching neither.
C12_ClassifyIsReference ==
  last.op = "classify" =>
    LET d == Domain(tabUrl)
    IN  /\ last.arg \in {"productive", "distracting", "neutral"}
        /\ last.arg = "productive" <=> MatchesProductive(d)
        /\ last.arg = "distracting" <=>
             (MatchesDistracting(d) /\ ~MatchesProductive(d))
        /\ last.arg = "neutral" <=>
             (~MatchesDistracting(d) /\ ~MatchesProductive(d))
        /\ (MatchesProductive(d) /\ MatchesDistracting(d))
             => last.arg = "productive"

\* C12 witness: a host name with entries of both lists in it has been
\* classified, as productive.
C12_Witness ==
  /\ last = [op |-> "classify", arg |-> "productive"]
  /\ MatchesProductive(Domain(tabUrl))
  /\ MatchesDistracting(Domain(tabUrl))

\* C13. At most one tick timer is registered in every state, and it is the
\* one this.updateTimer holds, also after a startSession received while a
\* session is being monitored or resumed.
C13_OneTickTimer ==
  /\ Cardinality(timers) <= 1
  /\ timers # {} => timers = {updateTimer}

\* C13 witness: a startSession received while the tick timer was running has
\* completed and one timer is registered.
C13_Witness ==
  /\ last = [op |-> "start", arg |-> "restarted"]
  /\ isSessionActive
  /\ Cardinality(timers) = 1

C15_StopReachesIdle ==
  last.op = "stop" =>
    /\ ~isSessionActive
    /\ timers = {}
    /\ sessionId = 0
    /\ ~sessionActive
    /\ sessionStartTime = -1

\* C16. When startSession() has ended because the /sessions/start request
\* threw, the session is active and the tick timer is running.
C16_StartSurvivesNetworkError ==
  last = [op |-> "start", arg |-> "failed"] =>
    (isSessionActive /\ updateTimer \in timers)

RECURSIVE SumChange(_)
\* the sum of coinsChange over the records of buf
SumChange(buf) ==
  IF buf = << >> THEN 0
  ELSE buf[1].coinsChange + SumChange(Tail(buf))

\* C17. Overlapping updateCoins() invocations leave what running them one
\* after the other leaves: once none is suspended, focusCoins and todayCoins
\* are the initial values plus the changes of the heartbeats emitted (no
\* write lost), each heartbeat credits only ticks elapsed since the heartbeat
\* before it and all together no more than the ticks elapsed (no tick
\* credited twice); and no invocation sets lastUpdateTime back.
C17_EvaluationsSerialize ==
  [][ /\ (\A e \in EvalSlots : evals'[e].pc = "idle")
           => /\ focusCoins' = InitialCoins + SumChange(heartbeatBuffer')
              /\ todayCoins' = SumChange(heartbeatBuffer')
              /\ SumChange(heartbeatBuffer') <= 3 * (now' \div 5000)
              /\ \A k \in 2..Len(heartbeatBuffer') :
                   heartbeatBuffer'[k].timestamp - heartbeatBuffer'[k - 1].timestamp
                     >= 5000 * (heartbeatBuffer'[k].coinsChange \div 3)
      /\ lastUpdateTime' >= lastUpdateTime
    ]_vars

\* C18. An updateCoins() invocation that finds a neutral site in the tab
\* ends there: focusCoins, todayCoins, the heartbeat buffer and
\* lastUpdateTime are unchanged and blockSite is not called.
C18_NeutralIsNoOp ==
  [][ \A e \in EvalSlots :
        ( /\ evals[e].pc = "query"
          /\ evals'[e].pc # "query"
          /\ tabUrl # NoUrl
          /\ ~MatchesProductive(Domain(tabUrl))
          /\ ~MatchesDistracting(Domain(tabUrl)) )
        => /\ evals'[e].pc = "idle"
           /\ UNCHANGED << focusCoins, todayCoins, heartbeatBuffer,
                           lastUpdateTime, tabUrl >>
    ]_vars

\* C18 witness: an invocation has just ended on a neutral site with more
\* than a tick interval elapsed since lastUpdateTime.
C18_Witness ==
  /\ last = [op |-> "evaluate", arg |-> "neutral"]
  /\ tabUrl = UrlExample
  /\ now - lastUpdateTime >= 5000

\* C19. Ticks that elapsed on a neutral site are never credited or debited:
\* where all the time elapsed was spent on neutral sites, no updateCoins()
\* invocation changes focusCoins or todayCoins, emits a heartbeat or calls
\* blockSite.
C19_NeutralTimeNotCounted ==
  [][ \A e \in EvalSlots :
        Computes(e)
          => /\ evals'[e].pc = "idle"
             /\ focusCoins' = focusCoins
             /\ todayCoins' = todayCoins
    ]_vars

\* C20. Every buffered heartbeat is well formed: siteType is productive or
\* distracting as its site matches the lists, action is focus for productive
\* and distract for distracting, and coinsChange is 3k for productive and
\* -4k for distracting with k >= 1 no more than the ticks elapsed.
C20_HeartbeatsWellFormed ==
  \A i \in 1..Len(heartbeatBuffer) :
    LET r == heartbeatBuffer[i]
    IN  /\ r.siteType \in {"productive", "distracting"}
        /\ r.siteType = "productive" <=> MatchesProductive(r.site)
        /\ r.action = IF r.siteType = "productive" THEN "focus" ELSE "distract"
        /\ \E k \in 1..(now \div 5000) :
             r.coinsChange = IF r.siteType = "productive" THEN 3 * k ELSE (-4) * k

\* C20 witness: a heartbeat of two ticks on a distracting site is buffered.
C20_Witness ==
  \E i \in 1..Len(heartbeatBuffer) :
    /\ heartbeatBuffer[i].siteType = "distracting"
    /\ heartbeatBuffer[i].action = "distract"
    /\ heartbeatBuffer[i].coinsChange = -8

\* the values every suspended invocation read from storage (line 187) are
\* still the stored ones: no other invocation has written since
ReadsAreFresh ==
  \A e \in EvalSlots :
    evals[e].pc = "get" =>
      evals[e].coins = focusCoins /\ evals[e].today = todayCoins

\* C21. todayCoins accumulates only positive deltas: a step of the engine
\* never decreases it, raises it by exactly 3k where an invocation on a
\* productive site computes with k ticks elapsed, and leaves it unchanged
\* otherwise (distracting, blocking and neutral evaluations included);
\* evaluations in sequence, that is, none computing from values another one
\* has overwritten since it read them.
C21_TodayOnlyGrows ==
  [][ ReadsAreFresh
        => /\ todayCoins' >= todayCoins
           /\ todayCoins' =
                IF \E e \in EvalSlots : Computes(e) /\ SiteOf(e) = "productive"
                  THEN todayCoins + 3 * ((now - lastUpdateTime) \div 5000)
                  ELSE todayCoins
    ]_vars

\* C21 witness: an invocation on a productive site has just raised
\* todayCoins by 6, two ticks having elapsed.
C21_Witness ==
  \E e \in EvalSlots :
    /\ evals[e].pc = "set"
    /\ SiteOf(e) = "productive"
    /\ evals[e].change = 6
    /\ todayCoins = evals[e].today + 6

\* the timestamps a heartbeat can carry in SpecDeliver
DeliverTimes == {k * coinUpdateInterval : k \in 1..MaxDeliverTicks}

\* a heartbeat with timestamp t is buffered
InBuffer(t) ==
  \E k \in 1..Len(heartbeatBuffer) : heartbeatBuffer[k].timestamp = t

\* a heartbeat with timestamp t is in the batch of a request in flight
InFlight(t) ==
  \E i \in RequestSlots :
    /\ requests[i].sent
    /\ \E k \in 1..Len(requests[i].batch) : requests[i].batch[k].timestamp = t

\* C22. Delivery is eventually successful where the sync timer keeps firing
\* and the backend keeps accepting: every buffered heartbeat is eventually in
\* the batch of a request sent to the backend (which its delivery in an
\* accepted batch takes), and a buffer that holds records is eventually
\* empty, also after the session has stopped.
C22_EventuallyDelivered ==
  /\ \A t \in DeliverTimes : [](InBuffer(t) => <>InFlight(t))
  /\ [](Len(heartbeatBuffer) > 0 => <>(Len(heartbeatBuffer) = 0))

\* heartbeat hb is stored in the Heartbeat collection
Stored(hb) ==
  \E k \in 1..Len(server.heartbeats) :
    server.heartbeats[k] = processedHeartbeats(<< hb >>)[1]

\* C23. Duplicate delivery is idempotent at the backend: where a request to
\* POST /api/sessions/heartbeats carries a batch whose records are all stored
\* already, handling it stores nothing and adds nothing to the user's
\* totalCoins.
C23_DuplicateDeliveryIdempotent ==
  [][ \A p \in PostSlots :
        ( /\ server.posts[p].pc = "insert"
          /\ server'.posts[p].pc # "insert"
          /\ \A k \in 1..Len(server.posts[p].batch) :
               Stored(server.posts[p].batch[k]) )
        => /\ server'.heartbeats = server.heartbeats
           /\ server'.posts[p].pc = "save"
                => server'.posts[p].user = server.posts[p].user
    ]_vars

\* C24. Every buffered heartbeat carries a session id that is not null, in
\* every reachable state, a session resumed by initialize() included.
C24_HeartbeatsCarrySession ==
  \A k \in 1..Len(heartbeatBuffer) : heartbeatBuffer[k].sessionId # 0

\* C25. Whenever no startSession()/stopSession() call is suspended, the
\* engine is either monitoring, with its tick timer registered and a session
\* id, or idle, with no tick timer registered and no session id, whatever
\* the interleaving of the calls was.
C25_CallsLeaveConsistentState ==
  (\A c \in CallSlots : calls[c].pc = "idle")
    => \/ /\ isSessionActive
          /\ updateTimer # 0 /\ timers = {updateTimer}
          /\ sessionId # 0
       \/ /\ ~isSessionActive
          /\ updateTimer = 0 /\ timers = {}
          /\ sessionId = 0

\* C26. While the engine is idle, a tick or a tab change is a no-op: it
\* changes neither focusCoins, todayCoins, the heartbeat buffer nor
\* lastUpdateTime and starts no updateCoins() invocation, so that blockSite
\* is not called.
C26_IdleEventsAreNoOps ==
  [][ (~isSessionActive /\ last'.op = "event")
        => /\ UNCHANGED << focusCoins, todayCoins, heartbeatBuffer,
                           lastUpdateTime >>
           /\ \A e \in EvalSlots : evals'[e].pc = evals[e].pc
    ]_vars

\* C26 witness: a tick has just fired with the engine idle (no tab was ever
\* activated), a tick interval after lastUpdateTime, on a site that is not
\* neutral.
C26_Witness ==
  /\ last = [op |-> "event", arg |-> "idle"]
  /\ ~isSessionActive
  /\ currentTabId = "null"
  /\ updateTimer \in timers
  /\ now - lastUpdateTime >= 5000
  /\ tabUrl # NoUrl
  /\ getSiteType(Domain(tabUrl)) # "neutral"

\* C27. Once stopSession() has made the engine idle, no step changes
\* focusCoins or todayCoins or appends a heartbeat until the next
\* startSession(), the steps of an updateCoins() invocation that was
\* suspended when stopSession() ran included.
C27_NothingAppliedAfterStop ==
  [][ ~isSessionActive
        => /\ focusCoins' = focusCoins
           /\ todayCoins' = todayCoins
           /\ Len(heartbeatBuffer') <= Len(heartbeatBuffer)
    ]_vars

\* slot c begins a stopSession() call (up to its first await)
Stops(c) == calls[c].pc = "idle" /\ calls'[c].op = "stop"

\* C28. syncHeartbeats() with an empty buffer sends no request; with a
\* non-empty buffer it sends exactly one, whose batch is the whole buffer as
\* it is at the call, in insertion order: every request sent carries the
\* buffer of that moment, no step sends two, and the syncHeartbeats() of
\* stopSession() sends one exactly if the buffer holds a record.
C28_FlushSendsWholeBuffer ==
  [][ /\ SentCount(requests') <= SentCount(requests) + 1
      /\ \A i \in RequestSlots :
           (~requests[i].sent /\ requests'[i].sent)
             => /\ Len(heartbeatBuffer') > 0
                /\ requests'[i].batch = heartbeatBuffer'
      /\ \A c \in CallSlots :
           Stops(c)
             => SentCount(requests') =
                  SentCount(requests) + (IF Len(heartbeatBuffer) = 0 THEN 0 ELSE 1)
    ]_vars

\* C28 witness: a request is in flight whose batch is the buffer of two or
\* more records.
C28_Witness ==
  \E i \in RequestSlots :
    /\ requests[i].sent
    /\ Len(requests[i].batch) >= 2
    /\ requests[i].batch = heartbeatBuffer

\* slot c ends a stopSession() call
StopReturns(c) == calls[c].op = "stop" /\ calls'[c].pc = "idle"

\* C29. stopSession() makes one final flush attempt if the buffer holds a
\* record and none otherwise, with the tick timer cancelled and the session
\* id not yet cleared, and attempts no other; where that flush succeeded,
\* the buffer is empty when it is answered and when stopSession() returns.
C29_OneFinalFlush ==
  [][ /\ \A c \in CallSlots :
           /\ Stops(c)
                => /\ SentCount(requests') =
                        SentCount(requests) + (IF Len(heartbeatBuffer) = 0 THEN 0 ELSE 1)
                   /\ updateTimer' = 0 /\ updateTimer \notin timers'
                   /\ sessionId' = sessionId
           /\ (calls[c].op = "stop" /\ calls'[c] # calls[c])
                => SentCount(requests') <= SentCount(requests)
      /\ \A i \in RequestSlots :
           (requests[i].sent /\ requests[i].owner # 0 /\ last'.op = "flush"
              /\ last'.arg = "success" /\ ~requests'[i].sent)
             => heartbeatBuffer' = << >>
      /\ \A c \in CallSlots :
           (StopReturns(c) /\ calls[c].flush = "success")
             => heartbeatBuffer' = << >>
    ]_vars

\* C30. A failure of the navigation of blockSite is swallowed: the
\* updateCoins() invocation ends there, focusCoins, todayCoins, the heartbeat
\* buffer, lastUpdateTime and the tab are unchanged and the session stays as
\* it is, so that the elapsed ticks are still pending; and an invocation
\* that then reads balance 0 on the distracting site calls blockSite again.
C30_BlockFailureSwallowed ==
  [][ \A e \in EvalSlots :
        /\ (evals[e].pc = "block" /\ evals'[e].pc # "block"
              /\ last'.arg = "blockFailed")
             => /\ evals'[e].pc = "idle"
                /\ UNCHANGED << focusCoins, todayCoins, heartbeatBuffer,
                                lastUpdateTime, tabUrl, isSessionActive,
                                updateTimer, timers >>
        /\ (Computes(e) /\ MatchesDistracting(Domain(evals[e].url))
              /\ ~MatchesProductive(Domain(evals[e].url))
              /\ evals[e].coins = 0
              /\ (now - lastUpdateTime) \div 5000 >= 1)
             => evals'[e].pc = "block"
    ]_vars

\* C30 witness: the navigation has just failed in a running session, the
\* tab still shows the distracting site, the balance is 0 and a tick is
\* still pending, so that the next tick blocks again.
C30_Witness ==
  /\ last = [op |-> "evaluate", arg |-> "blockFailed"]
  /\ isSessionActive
  /\ updateTimer \in timers
  /\ tabUrl = UrlYoutube
  /\ focusCoins = 0
  /\ (now - lastUpdateTime) \div 5000 >= 1

\* the session is monitoring: active, with its tick timer registered
Monitoring == isSessionActive /\ updateTimer \in timers

\* C31. While the session stays monitoring with the active tab on a
\* distracting site, time passes and ticks keep firing, the balance
\* eventually reaches 0 and blockSite is eventually called, whatever
\* URL updates of the tab within the site occur between the ticks.
C31_DistractionDepletes ==
  []Monitoring
    => /\ <>(focusCoins = 0)
       /\ <>(\E e \in EvalSlots : evals[e].pc = "block")

\* slot e takes up an updateCoins() invocation
Begins(e) == evals[e].pc = "idle" /\ evals'[e].pc = "query"

\* the step handles a tab change: onActivated, or onUpdated with a new URL
\* for the tab the engine tracks (the tab is not navigated by blockSite)
TabChanges ==
  /\ currentTabId' = "active"
  /\ tabUrl' # tabUrl \/ currentTabId = "null"
  /\ ~\E e \in EvalSlots : evals[e].pc = "block"

\* C32. A tab change handled in an active session sets lastUpdateTime to the
\* time of the event and starts an updateCoins() invocation, changing no
\* balance and appending no heartbeat: however many whole ticks had elapsed
\* since lastUpdateTime, none is left.  The invocation started at the time
\* lastUpdateTime was set, when it computes alone and less than a tick
\* interval later, changes no balance, appends no heartbeat and ends.
C32_TabChangeDiscardsElapsed ==
  [][ /\ (isSessionActive /\ TabChanges)
        => /\ lastUpdateTime' = now
           /\ (now' - lastUpdateTime') \div 5000 = 0
           /\ \E e \in EvalSlots : Begins(e)
           /\ UNCHANGED << focusCoins, todayCoins, heartbeatBuffer >>
      /\ \A e \in EvalSlots :
           ( /\ Computes(e)
             /\ prevEvalTime = lastUpdateTime
             /\ \A f \in EvalSlots \ {e} : evals[f].pc = "idle" )
           => /\ UNCHANGED << focusCoins, todayCoins, heartbeatBuffer,
                              lastUpdateTime >>
              /\ evals'[e].pc = "idle"
    ]_vars

\* C32 witness: in an active session on a site that is not neutral, an
\* invocation has ended without a change at the time of a tab change that
\* came a whole tick or more after the session was resumed: the tick has
\* been discarded, the balance is the initial one and no heartbeat exists.
C32_Witness ==
  /\ last = [op |-> "evaluate", arg |-> "skip"]
  /\ isSessionActive
  /\ sessionStartTime = 0
  /\ lastUpdateTime = now
  /\ prevEvalTime = now
  /\ now >= 5000
  /\ getSiteType(Domain(tabUrl)) # "neutral"
  /\ focusCoins = InitialCoins
  /\ todayCoins = 0
  /\ heartbeatBuffer = << >>

\* C33. The balance and the heartbeats agree: the coinsChange of every
\* heartbeat appended is the balance the invocation wrote minus the balance
\* it read, so that the balance is the initial balance plus the coinsChange
\* of all heartbeats appended so far.
C33_HeartbeatIsBalanceChange ==
  [][ \A e \in EvalSlots :
        Appends(e)
          => LastOf(heartbeatBuffer').coinsChange = focusCoins - evals[e].coins
    ]_vars

\* the records of a batch
Records(batch) == {batch[k] : k \in 1..Len(batch)}

\* C34. Where every request is answered with success, no two requests that
\* are in flight together carry the same record, whether they were sent by
\* the periodic timer, by a full buffer or by stopSession().
C34_NoRecordInTwoRequests ==
  \A i, j \in RequestSlots :
    (i # j /\ requests[i].sent /\ requests[j].sent)
      => Records(requests[i].batch) \cap Records(requests[j].batch) = {}

\* the handler of request p answers
Answers(p) == server.posts[p].pc # "idle" /\ server'.posts[p].pc = "idle"

\* the handler of request p is past Heartbeat.insertMany
HasStored(p) == server.posts[p].pc = "save"

\* C35. A request to POST /api/sessions/heartbeats that is answered with an
\* error has stored none of its records and leaves the stored heartbeats and
\* the user's totalCoins as they are; one that is answered with success has
\* stored every record of its batch and added the sum of their coinsChange
\* to totalCoins.
C35_ErrorStoresNothing ==
  [][ \A p \in PostSlots :
        /\ (Answers(p) /\ last'.arg \in {"error", "badRequest"})
             => /\ ~HasStored(p)
                /\ server'.heartbeats = server.heartbeats
                /\ server'.totalCoins = server.totalCoins
        /\ (Answers(p) /\ last'.arg = "success")
             => /\ \A k \in 1..Len(server.posts[p].batch) :
                     \E n \in 1..Len(server'.heartbeats) :
                       server'.heartbeats[n] =
                         processedHeartbeats(<< server.posts[p].batch[k] >>)[1]
                /\ server'.totalCoins =
                     server.totalCoins + totalCoinsChange(server.posts[p].batch)
    ]_vars

\* C36. The leaderboard cache expires by time: a response of
\* GET /api/leaderboard/global served from the cache for a sort key was
\* generated for that key less than CACHE_DURATION before the request.
C36_CachedBoardIsFresh ==
  server.answer.cached
    => server.answer.at - server.answer.generated < CACHE_DURATION

\* the run in slot a writes the DailyStats document of date
Upserts(a, date) ==
  /\ server.runs[a].pc = "save"
  /\ Head(server.runs[a].dates) = date
  /\ server'.runs[a] # server.runs[a]

\* C37. The DailyStats document an hourly or daily aggregation run writes
\* for a date holds the totals (coinsEarned, coinsSpent, productiveTime,
\* distractingTime, sessionsCount) over all stored heartbeats of the user
\* that are timestamped on that date, as far as they were stored when the
\* run read the heartbeats and lie before the end of its period, not over a
\* part of them.
C37_DailyStatsAreDayTotals ==
  [][ \A a \in RunSlots, date \in Dates :
        Upserts(a, date)
          => server'.daily[date] =
               dailyData(Between(SubSeq(server.heartbeats, 1,
                                        server.runs[a].stored),
                                 0, server.runs[a].endTime),
                         date)
    ]_vars

\* the handler of request b deducts the price of its powerup
Deducts(b) ==
  /\ server.buys[b].pc = "update"
  /\ server'.buys[b].pc = "idle"
  /\ last'.arg = "success"

\* C38. However requests to POST /api/user/powerups/:uuid of one user
\* interleave, the price of a powerup is deducted only where the user's
\* totalCoins cover it at the deduction, so that a purchase never leaves
\* totalCoins below 0.
C38_PurchaseCovered ==
  [][ \A b \in BuySlots :
        Deducts(b)
          => /\ server.totalCoins >= Cost(server.buys[b].powerupType)
             /\ server'.totalCoins >= 0
    ]_vars

============================================================================
